---------------------------- MODULE Spec2Model ----------------------------
(***************************************************************************)
(* Route resolution and navigation engine of router-kit.                   *)
(*                                                                         *)
(* The module models RouterProvider (context/RouterProvider.tsx) with its  *)
(* asynchronous matcher matchRoutesAsync, and the middleware executor      *)
(* executeMiddlewareChain (utils/middleware.ts); createRouter, the server  *)
(* matcher matchServerRoutes and <StaticRouter> (ssr/StaticRouter.tsx);    *)
(* <Outlet> with useOutletContext, and the useBlocker hook.                *)
(*                                                                         *)
(* Specifications: Spec (the provider's navigation), LiveSpec (the same    *)
(* with React rendering what is queued), AppSpec (navigate with URL        *)
(* strings, useBlocker), MatchSpec and SsrSpec (createRouter and the       *)
(* matchers on given trees), ChainSpec and ExecSpec (the middleware        *)
(* executor step by step), NormSpec (createRouter on path strings) and     *)
(* PatchSpec (the history methods under several mounted providers).        *)
(*                                                                         *)
(* Representation.                                                         *)
(*  - A pathname is the sequence of its non-empty parts, i.e. the value of *)
(*    pathname.split("/").filter(Boolean): "/" is << >>, "/app/old" is     *)
(*    <<"app", "old">>.                                                    *)
(*  - A pattern is the sequence of its segments; a segment is a record     *)
(*    [kind, name] where kind says how the segment string starts           *)
(*    ("*" catchAll, ":" dynamic, ":" with a trailing "?" optional,        *)
(*    anything else static) and name is the rest of the string.            *)
(*  - A param value is a sequence of parts standing for the string that    *)
(*    joins them with "/"; the empty string is << >>.                      *)
(*  - A component is the sequence of route ids it renders, outermost       *)
(*    first; null is << >>.                                                *)
(***************************************************************************)
EXTENDS Integers, Sequences, FiniteSets, TLC

None == "none"

\* ---------------------------------------------------------------- values

Seg(kind, name) == [kind |-> kind, name |-> name]
S(name) == Seg("static", name)
D(name) == Seg("dynamic", name)

NoParams == <<>>

\* Outcomes a middleware function can have when it is invoked.
\*   next      return next()              (delegates to the rest of the chain)
\*   continue  return {type: "continue"}  (without calling next)
\*   redirect  return {type: "redirect", to}
\*   block     return {type: "block"}
\*   invalid   return a value that is no MiddlewareResult
\*   throw     throw synchronously
\*   reject    return a promise that rejects
MiddlewareActs == {"next", "continue", "redirect", "block", "invalid", "throw", "reject"}

Mw(act, to) == [act |-> act, to |-> to]

\* Outcomes of a guard: true, false, a path string, a throw, a rejection.
GuardActs == {"true", "false", "string", "throw", "reject"}

Guard(act, to) == [act |-> act, to |-> to]

NoGuard == Guard(None, <<>>)

\* An optional pathname (route.redirectTo, MatchResult.redirect).
NoRedirect == [set |-> FALSE, to |-> <<>>]
To(path) == [set |-> TRUE, to |-> path]

\* A Route object.  paths is the list of alias patterns of route.path;
\* loader says whether the route has one; errorElement likewise.
Route(id, paths, children, redirectTo, middleware, guard, loader, errorElement) ==
    [id |-> id, paths |-> paths, children |-> children,
     redirectTo |-> redirectTo, middleware |-> middleware, guard |-> guard,
     loader |-> loader, errorElement |-> errorElement]

Leaf(id, pattern) ==
    Route(id, <<pattern>>, <<>>, NoRedirect, <<>>, NoGuard, FALSE, FALSE)

\* ------------------------------------------------------- path matching

\* The loop of extractParams over the pattern parts, from part i on.
RECURSIVE ExtractFrom(_, _, _, _)
ExtractFrom(patternParts, pathParts, i, params) ==
    IF i > Len(patternParts)
    THEN [ok |-> TRUE, params |-> params]
    ELSE LET patternPart == patternParts[i]
             defined == i <= Len(pathParts)
         IN  CASE patternPart.kind = "catchAll" ->
                    LET paramName == IF patternPart.name = "" THEN "splat"
                                     ELSE patternPart.name
                    IN  [ok |-> TRUE,
                         params |-> (paramName :> SubSeq(pathParts, i, Len(pathParts)))
                                    @@ params]
               [] patternPart.kind = "optional" ->
                    ExtractFrom(patternParts, pathParts, i + 1,
                        (patternPart.name :>
                            (IF defined THEN <<pathParts[i]>> ELSE <<>>)) @@ params)
               [] patternPart.kind = "dynamic" ->
                    IF ~defined
                    THEN [ok |-> FALSE, params |-> NoParams]
                    ELSE ExtractFrom(patternParts, pathParts, i + 1,
                            (patternPart.name :> <<pathParts[i]>>) @@ params)
               [] OTHER ->
                    IF ~defined \/ patternPart.name # pathParts[i]
                    THEN [ok |-> FALSE, params |-> NoParams]
                    ELSE ExtractFrom(patternParts, pathParts, i + 1, params)

\* An extractParams that never matches a prefix: partialMatch is ignored.
extractParamsExact(patternParts, pathParts, partialMatch) ==
    IF Len(patternParts) = 0 /\ Len(pathParts) = 0
    THEN [ok |-> TRUE, params |-> NoParams]
    ELSE IF Len(patternParts) # Len(pathParts)
            /\ ~\E k \in DOMAIN patternParts : patternParts[k].kind = "catchAll"
    THEN [ok |-> FALSE, params |-> NoParams]
    ELSE ExtractFrom(patternParts, pathParts, 1, NoParams)

\* extractParams(pattern, pathname, partialMatch); ok = FALSE is null.
extractParams(patternParts, pathParts, partialMatch) ==
    IF Len(patternParts) = 0 /\ Len(pathParts) = 0
    THEN [ok |-> TRUE, params |-> NoParams]
    ELSE IF partialMatch /\ Len(patternParts) > Len(pathParts)
    THEN [ok |-> FALSE, params |-> NoParams]
    ELSE IF ~partialMatch /\ Len(patternParts) # Len(pathParts)
            /\ ~\E k \in DOMAIN patternParts : patternParts[k].kind = "catchAll"
    THEN [ok |-> FALSE, params |-> NoParams]
    ELSE ExtractFrom(patternParts, pathParts, 1, NoParams)

\* matchPathPattern: the first alias pattern, from alias k on, that matches.
RECURSIVE MatchAlias(_, _, _, _)
MatchAlias(patterns, currentPath, partialMatch, k) ==
    IF k > Len(patterns)
    THEN [match |-> FALSE, params |-> NoParams, pattern |-> <<>>]
    ELSE LET extractedParams == extractParams(patterns[k], currentPath, partialMatch)
         IN  IF extractedParams.ok
             THEN [match |-> TRUE, params |-> extractedParams.params,
                   pattern |-> patterns[k]]
             ELSE MatchAlias(patterns, currentPath, partialMatch, k + 1)

matchPathPattern(routePattern, currentPath, partialMatch) ==
    MatchAlias(routePattern, currentPath, partialMatch, 1)

\* --------------------------------------------------- middleware executor

Continue == [type |-> "continue", to |-> <<>>]
Block == [type |-> "block", to |-> <<>>]
RedirectTo(to) == [type |-> "redirect", to |-> to]
\* The promise rejects instead of resolving to a MiddlewareResult.
Rejected == [type |-> "rejected", to |-> <<>>]

\* A `next` without its catch block: the chain's promise rejects.
MiddlewareThrewNoCatch(act) == Rejected

\* What `next` does with a middleware that threw or whose promise rejected:
\* the catch block of `next`.
MiddlewareThrew(act) == Block

\* The closure `next` of executeMiddlewareChain with the shared index at
\* `index` (1-based here).
RECURSIVE next(_, _)
next(middlewares, index) ==
    IF index > Len(middlewares)
    THEN Continue
    ELSE LET middleware == middlewares[index]
         IN  CASE middleware.act = "next" -> next(middlewares, index + 1)
               [] middleware.act = "continue" -> Continue
               [] middleware.act = "redirect" -> RedirectTo(middleware.to)
               [] middleware.act = "block" -> Block
               [] middleware.act = "invalid" -> Continue
               [] OTHER -> MiddlewareThrew(middleware.act)

\* An executor that takes a redirect result for an invalid one and falls
\* back to continue.
executeMiddlewareChainDropsRedirect(middlewares) ==
    IF Len(middlewares) = 0 \/ next(middlewares, 1).type = "redirect"
    THEN Continue
    ELSE next(middlewares, 1)

executeMiddlewareChain(middlewares) ==
    IF Len(middlewares) = 0 THEN Continue ELSE next(middlewares, 1)

\* ------------------------------------------------------------- matcher

NoLoader == [has |-> FALSE, route |-> None, params |-> NoParams]
LoaderOf(route, params) ==
    IF route.loader THEN [has |-> TRUE, route |-> route.id, params |-> params]
    ELSE NoLoader

ErrorElementOf(route) == IF route.errorElement THEN route.id ELSE None

\* `a || b` on optional ids / components.
OrElse(a, b) == IF a # None THEN a ELSE b

\* A MatchResult.  settled = "rejected" stands for the promise of
\* matchRoutesAsync rejecting instead of resolving to a MatchResult.
MatchResult(component, pattern, params, matches, redirect, error, loader, page404Component, errorElement) ==
    [settled |-> "fulfilled", component |-> component, pattern |-> pattern,
     params |-> params, matches |-> matches, redirect |-> redirect,
     error |-> error, loader |-> loader,
     page404Component |-> page404Component, errorElement |-> errorElement]

EmptyMatchResult ==
    MatchResult(<<>>, <<>>, NoParams, <<>>, NoRedirect, None, NoLoader, None, None)

RejectedResult == [EmptyMatchResult EXCEPT !.settled = "rejected"]

\* pathArray.some(p => p === "404" || p === "/404")
is404(route) == \E k \in DOMAIN route.paths : route.paths[k] = <<S("404")>>

HasKind(route, kinds) ==
    \E k \in DOMAIN route.paths :
        \E j \in DOMAIN route.paths[k] : route.paths[k][j].kind \in kinds

hasCatchAll(route) == HasKind(route, {"catchAll"})
hasDynamicParams(route) == HasKind(route, {"dynamic", "optional"})

IsCatchAllRoute(route) == ~is404(route) /\ hasCatchAll(route)
IsDynamicRoute(route) == ~is404(route) /\ ~hasCatchAll(route) /\ hasDynamicParams(route)
IsStaticRoute(route) == ~is404(route) /\ ~hasCatchAll(route) /\ ~hasDynamicParams(route)

\* The routes in declaration order, whatever their kind.
orderedRoutesDeclared(routesList) ==
    SelectSeq(routesList, LAMBDA r : ~is404(r))

\* Priority: static > dynamic > catch-all
orderedRoutes(routesList) ==
    SelectSeq(routesList, IsStaticRoute) \o SelectSeq(routesList, IsDynamicRoute)
        \o SelectSeq(routesList, IsCatchAllRoute)

\* The component of the last 404 route of the list, else null.
page404Of(routesList) ==
    LET idx == {k \in DOMAIN routesList : is404(routesList[k])}
    IN  IF idx = {} THEN None
        ELSE routesList[CHOOSE k \in idx : \A j \in idx : j <= k].id

\* A merge in which the parent's binding of a key survives the child's.
MergeParamsParentWins(parentParams, childParams) == parentParams @@ childParams

\* { ...matchResult.params, ...childResult.params }: the params of the parent
\* level overwritten by those of the child result.
MergeParams(parentParams, childParams) == childParams @@ parentParams

\* A guard step without its try/catch: a guard that throws makes the
\* promise of matchRoutesAsync reject.
GuardStepNoCatch(guard) ==
    CASE guard.act \in {None, "true"} -> [kind |-> "pass", to |-> <<>>]
      [] guard.act = "false" -> [kind |-> "skip", to |-> <<>>]
      [] guard.act = "string" -> [kind |-> "redirect", to |-> guard.to]
      [] OTHER -> [kind |-> "rejected", to |-> <<>>]

\* The guard step of matchRoutesAsync with its try/catch:
\*   pass (guard allowed), skip (guard returned false), redirect, error
\*   (the guard threw and the catch returned an error result).
GuardStep(guard) ==
    CASE guard.act \in {None, "true"} -> [kind |-> "pass", to |-> <<>>]
      [] guard.act = "false" -> [kind |-> "skip", to |-> <<>>]
      [] guard.act = "string" -> [kind |-> "redirect", to |-> guard.to]
      [] OTHER -> [kind |-> "error", to |-> <<>>]

\* matchRoutesAsync(routesList, currentPath, parentPath, searchString,
\* collectedMatches, request, signal).  Each middleware and guard has the
\* outcome that the route tree gives it, so the result is a function of the
\* arguments; the awaits inside are the points between the start of an
\* attempt and the action that settles it.
RECURSIVE matchRoutesAsync(_, _, _, _)
RECURSIVE TryRoutes(_, _, _, _, _, _)

\* The loop `for (const route of orderedRoutes)` from index i on.
TryRoutes(ordered, i, currentPath, parentPath, collectedMatches, page404Component) ==
    IF i > Len(ordered)
    THEN MatchResult(<<>>, <<>>, NoParams, collectedMatches, NoRedirect, None,
                     NoLoader, page404Component, None)
    ELSE
    LET route == ordered[i]
        fullPath == parentPath \o route.paths[1]
        fullPattern == [k \in DOMAIN route.paths |-> parentPath \o route.paths[k]]
        isParent == Len(route.children) > 0
        matchResult == matchPathPattern(fullPattern, currentPath, isParent)
        skip == TryRoutes(ordered, i + 1, currentPath, parentPath,
                          collectedMatches, page404Component)
        stop(redirect, error, errorElement) ==
            MatchResult(<<>>, matchResult.pattern, matchResult.params,
                        collectedMatches, redirect, error, NoLoader,
                        page404Component, errorElement)
    IN
    IF matchResult.match
    THEN
      IF route.redirectTo.set
      THEN stop(route.redirectTo, None, None)
      ELSE
      LET middlewareResult ==
              IF Len(route.middleware) > 0
              THEN executeMiddlewareChain(route.middleware)
              ELSE Continue
          guardResult == GuardStep(route.guard)
          newMatch == [route |-> route.id, params |-> matchResult.params,
                       pathname |-> currentPath, pathnameBase |-> parentPath,
                       pattern |-> matchResult.pattern]
          newMatches == Append(collectedMatches, newMatch)
          leaf == MatchResult(<<route.id>>, matchResult.pattern,
                              matchResult.params, newMatches, NoRedirect, None,
                              LoaderOf(route, matchResult.params),
                              page404Component, ErrorElementOf(route))
      IN
      CASE middlewareResult.type = "rejected" ->
             stop(NoRedirect, "MiddlewareError", ErrorElementOf(route))
        [] middlewareResult.type = "redirect" ->
             stop(To(middlewareResult.to), None, ErrorElementOf(route))
        [] middlewareResult.type = "block" -> skip
        [] OTHER ->
             CASE guardResult.kind = "rejected" -> RejectedResult
               [] guardResult.kind = "error" ->
                    stop(NoRedirect, "GuardError", ErrorElementOf(route))
               [] guardResult.kind = "redirect" ->
                    stop(To(guardResult.to), None, ErrorElementOf(route))
               [] guardResult.kind = "skip" -> skip
               [] OTHER ->
                    IF ~isParent THEN leaf
                    ELSE
                    LET childResult == matchRoutesAsync(route.children, currentPath,
                                                        fullPath, newMatches)
                    IN  IF childResult.settled = "rejected" THEN childResult
                        ELSE IF childResult.component # <<>> \/ childResult.redirect.set
                        THEN MatchResult(
                                 <<route.id>> \o childResult.component,
                                 matchResult.pattern,
                                 MergeParams(matchResult.params, childResult.params),
                                 childResult.matches,
                                 NoRedirect, None,
                                 IF route.loader
                                 THEN LoaderOf(route, matchResult.params)
                                 ELSE childResult.loader,
                                 OrElse(page404Component, childResult.page404Component),
                                 OrElse(ErrorElementOf(route), childResult.errorElement))
                        ELSE leaf
    ELSE
      \* children of a route that does not match itself
      LET childResult == matchRoutesAsync(route.children, currentPath, fullPath,
                                          collectedMatches)
      IN  IF childResult.settled = "rejected" THEN childResult
          ELSE IF childResult.component # <<>> \/ childResult.redirect.set
          THEN [childResult EXCEPT !.page404Component =
                    OrElse(page404Component, childResult.page404Component)]
          ELSE skip

matchRoutesAsync(routesList, currentPath, parentPath, collectedMatches) ==
    TryRoutes(orderedRoutes(routesList), 1, currentPath, parentPath,
              collectedMatches, page404Of(routesList))

\* A route whose guard is never invoked.
RouteStepsWithoutGuard(route, chainIds) ==
    IF Len(route.middleware) > 0
    THEN << [route |-> route.id, step |-> "middleware",
             result |-> executeMiddlewareChain(route.middleware).type,
             chain |-> chainIds] >>
    ELSE <<>>

\* The steps matchRoutesAsync invokes for a route whose pattern matched and
\* which has no redirectTo, in order: `await executeMiddlewareChain(...)`
\* if it has middleware, then `await route.guard(...)` if it has a guard and
\* the chain neither redirected nor blocked.  Each step is recorded with its
\* result and the ids of collectedMatches, the chain it was invoked under.
RouteSteps(route, chainIds) ==
    LET chainRuns == Len(route.middleware) > 0
        middlewareResult == executeMiddlewareChain(route.middleware)
    IN  (IF chainRuns
         THEN << [route |-> route.id, step |-> "middleware",
                  result |-> middlewareResult.type, chain |-> chainIds] >>
         ELSE <<>>)
        \o (IF route.guard.act # None
                /\ (chainRuns => middlewareResult.type = "continue")
            THEN << [route |-> route.id, step |-> "guard",
                     result |-> GuardStep(route.guard).kind, chain |-> chainIds] >>
            ELSE <<>>)

\* The steps one call of matchRoutesAsync invokes, in order, following the
\* loop over orderedRoutes from index i on and the recursion into children.
RECURSIVE InvocationLog(_, _, _, _, _)
InvocationLog(ordered, i, currentPath, parentPath, chainIds) ==
    IF i > Len(ordered)
    THEN <<>>
    ELSE
    LET route == ordered[i]
        fullPath == parentPath \o route.paths[1]
        fullPattern == [k \in DOMAIN route.paths |-> parentPath \o route.paths[k]]
        isParent == Len(route.children) > 0
        matchResult == matchPathPattern(fullPattern, currentPath, isParent)
        own == RouteSteps(route, chainIds)
        outcome == IF own = <<>> THEN "continue" ELSE own[Len(own)].result
        skip == InvocationLog(ordered, i + 1, currentPath, parentPath, chainIds)
        below(ids) == InvocationLog(orderedRoutes(route.children), 1, currentPath,
                                    fullPath, ids)
        childResult == matchRoutesAsync(route.children, currentPath, fullPath, <<>>)
    IN
    IF matchResult.match
    THEN IF route.redirectTo.set
         THEN <<>>
         ELSE CASE outcome \in {"block", "skip"} -> own \o skip
                [] outcome \in {"continue", "pass"} ->
                     own \o (IF isParent THEN below(Append(chainIds, route.id))
                             ELSE <<>>)
                [] OTHER -> own
    ELSE \* children of a route that does not match itself
         IF childResult.settled = "rejected" \/ childResult.component # <<>>
               \/ childResult.redirect.set
         THEN below(chainIds)
         ELSE below(chainIds) \o skip

\* ------------------------------------------------- server-side matcher

\* route.path === "404" || route.path === "/404" (a string comparison: a
\* path with aliases is never equal).
isServer404(route) == Len(route.paths) = 1 /\ route.paths[1] = <<S("404")>>

orderedServerRoutes(routesList) ==
    SelectSeq(routesList,
        LAMBDA r : ~isServer404(r) /\ ~hasCatchAll(r) /\ ~hasDynamicParams(r))
    \o SelectSeq(routesList,
        LAMBDA r : ~isServer404(r) /\ ~hasCatchAll(r) /\ hasDynamicParams(r))
    \o SelectSeq(routesList, LAMBDA r : ~isServer404(r) /\ hasCatchAll(r))

ServerMatchResult(matches, params, redirect, statusCode) ==
    [settled |-> "fulfilled", matches |-> matches, params |-> params,
     redirect |-> redirect, statusCode |-> statusCode]

\* matchServerRoutes(routes, pathname, parentPath).  Its extractParams has
\* the loop of the client's, and its loop over the alias patterns takes the
\* first that matches, as matchPathPattern does.
RECURSIVE matchServerRoutes(_, _, _)
RECURSIVE TryServerRoutes(_, _, _, _)

\* The loop `for (const route of orderedRoutes)` from index i on.
TryServerRoutes(ordered, i, currentPath, parentPath) ==
    IF i > Len(ordered)
    THEN ServerMatchResult(<<>>, NoParams, NoRedirect, 404)
    ELSE
    LET route == ordered[i]
        fullPath == parentPath \o route.paths[1]
        patterns == [k \in DOMAIN route.paths |-> parentPath \o route.paths[k]]
        isParent == Len(route.children) > 0
        extracted == matchPathPattern(patterns, currentPath, isParent)
        childResult == matchServerRoutes(route.children, currentPath, fullPath)
        match == [route |-> route.id, params |-> extracted.params,
                  pathname |-> currentPath, pathnameBase |-> parentPath,
                  pattern |-> extracted.pattern]
    IN
    IF extracted.match
    THEN IF route.redirectTo.set
         THEN ServerMatchResult(<<>>, extracted.params, route.redirectTo, 302)
         ELSE IF isParent /\ childResult.redirect.set
         THEN childResult
         ELSE IF isParent /\ Len(childResult.matches) > 0
         THEN ServerMatchResult(<<match>> \o childResult.matches,
                                childResult.params @@ extracted.params,
                                NoRedirect, childResult.statusCode)
         ELSE ServerMatchResult(<<match>>, extracted.params, NoRedirect, 200)
    ELSE IF Len(childResult.matches) > 0 \/ childResult.redirect.set
         THEN childResult
         ELSE TryServerRoutes(ordered, i + 1, currentPath, parentPath)

matchServerRoutes(routesList, currentPath, parentPath) ==
    TryServerRoutes(orderedServerRoutes(routesList), 1, currentPath, parentPath)

\* ---------------------------------------------------------- createRouter

\* The catch-all test of validateRoute on one path p:
\*   p.includes("*") && !p.endsWith("*") && !p.includes("*/")
\* A path ends with "*" when its last segment is the unnamed catch-all, and
\* includes "*/" when an unnamed catch-all is followed by another segment.
warnsCatchAll(pattern) ==
    /\ \E j \in DOMAIN pattern : pattern[j].kind = "catchAll"
    /\ ~(pattern[Len(pattern)].kind = "catchAll" /\ pattern[Len(pattern)].name = "")
    /\ ~\E j \in DOMAIN pattern :
            j < Len(pattern) /\ pattern[j].kind = "catchAll" /\ pattern[j].name = ""

\* validateRoute(route, path): it only warns; the warnings about the
\* catch-all are the ones kept here.
validateRoute(route) ==
    IF \E k \in DOMAIN route.paths : warnsCatchAll(route.paths[k])
    THEN {<<"CatchAllShouldBeAtEnd", route.id>>}
    ELSE {}

\* The warnings normalizeRoutes logs for a list of routes and their children.
RECURSIVE warnings(_)
warnings(inputList) ==
    UNION {validateRoute(inputList[k]) \cup warnings(inputList[k].children) :
              k \in DOMAIN inputList}

\* normalizeRoutes(inputRoutes): every route is kept, its path without the
\* leading slashes (which the sequence of segments does not have), its
\* children normalized.
RECURSIVE normalizeRoutes(_)
normalizeRoutes(inputList) ==
    [k \in DOMAIN inputList |->
        [inputList[k] EXCEPT !.children = normalizeRoutes(@)]]

\* createRouter(inputRoutes) for an array of routes; isDev is
\* window.__DEV__.  It returns the normalized routes and never throws for
\* an array.
createRouter(inputList, isDev) ==
    [created |-> TRUE, routes |-> normalizeRoutes(inputList),
     warnings |-> IF isDev THEN warnings(inputList) ELSE {}]

\* ---------------------------------------------------------- route tree

\* The route tree given to RouterProvider.
routes ==
    << Leaf("home", <<>>),
       Route("dashboard", << <<S("dashboard")>> >>, <<>>, NoRedirect,
             << Mw("redirect", <<"login">>) >>, NoGuard, FALSE, FALSE),
       Route("login", << <<S("login")>> >>, <<>>, NoRedirect,
             <<>>, NoGuard, TRUE, FALSE),
       Route("admin", << <<S("admin")>> >>, <<>>, NoRedirect,
             << Mw("next", <<>>), Mw("block", <<>>) >>, NoGuard, FALSE, FALSE),
       Route("self", << <<S("self")>> >>, <<>>, NoRedirect,
             <<>>, Guard("string", <<"self">>), FALSE, FALSE),
       Route("gate", << <<S("gate")>> >>, <<>>, NoRedirect,
             <<>>, Guard("reject", <<>>), FALSE, TRUE),
       Route("vault", << <<S("vault"), S("key")>> >>, <<>>, NoRedirect,
             << Mw("throw", <<>>) >>, NoGuard, FALSE, TRUE),
       Route("app", << <<S("app")>> >>,
             << Route("old", << <<S("old")>> >>, <<>>, To(<<"login">>),
                      <<>>, NoGuard, FALSE, FALSE) >>,
             NoRedirect, <<>>, NoGuard, FALSE, FALSE),
       Route("shop", << <<S("shop")>> >>,
             << Route("cart", << <<S("cart")>> >>, <<>>, NoRedirect,
                      <<>>, NoGuard, TRUE, TRUE) >>,
             NoRedirect, <<>>, NoGuard, FALSE, TRUE),
       Route("team", << <<S("team")>> >>,
             << Route("roster", << <<S("roster")>> >>, <<>>, NoRedirect,
                      <<>>, NoGuard, TRUE, FALSE) >>,
             NoRedirect, <<>>, NoGuard, TRUE, FALSE),
       Leaf("page", <<D("page")>>),
       Leaf("notfound", <<S("404")>>) >>

\* The locations of the application that a user can ask for.
Paths ==
    { <<"dashboard">>, <<"login">>, <<"admin">>, <<"self">>, <<"gate">>,
      <<"vault", "key">>, <<"app", "old">> }

\* Route definitions given to createRouter and matched on their own.

\* Siblings /users, /:id, /*rest and a second dynamic sibling /:name.
Siblings ==
    { Leaf("users", <<S("users")>>), Leaf("id", <<D("id")>>),
      Leaf("rest", <<Seg("catchAll", "rest")>>), Leaf("name", <<D("name")>>) }

\* Three of the siblings in every declaration order.
SiblingLists ==
    {<<a, b, c>> : a \in Siblings, b \in Siblings, c \in Siblings} \
        {l \in {<<a, b, c>> : a \in Siblings, b \in Siblings, c \in Siblings} :
            l[1] = l[2] \/ l[1] = l[3] \/ l[2] = l[3]}

\* The siblings as the children of a route /team.
NestedLists ==
    {<< Route("team", << <<S("team")>> >>, children, NoRedirect, <<>>, NoGuard,
              FALSE, FALSE) >> : children \in SiblingLists}

\* / with view A, /users/:id with view B and child settings with view C,
\* /404 with view D.
ScenarioTree ==
    << Leaf("A", <<>>),
       Route("B", << <<S("users"), D("id")>> >>, << Leaf("C", <<S("settings")>>) >>,
             NoRedirect, <<>>, NoGuard, FALSE, FALSE),
       Leaf("D", <<S("404")>>) >>

\* /a/:id with the child :id/:tab, which binds id again.
ParamTree ==
    << Route("item", << <<S("a"), D("id")>> >>,
             << Leaf("tab", <<D("id"), D("tab")>>) >>,
             NoRedirect, <<>>, NoGuard, FALSE, FALSE) >>

\* /files/*rest/edit and /files/*/edit: a catch-all that is not the last
\* segment.
CatchAllTrees ==
    { << Leaf("edit", <<S("files"), Seg("catchAll", "rest"), S("edit")>>) >>,
      << Leaf("edit", <<S("files"), Seg("catchAll", ""), S("edit")>>) >> }

\* /users/:id?, a pattern that ends in an optional dynamic segment, and
\* /404.
OptionalTree ==
    << Leaf("user", <<S("users"), Seg("optional", "id")>>),
       Leaf("missing", <<S("404")>>) >>

\* A route with the alias paths ["/a", "/b"] and the child settings.
AliasTree ==
    << Route("parent", << <<S("a")>>, <<S("b")>> >>,
             << Leaf("settings", <<S("settings")>>) >>,
             NoRedirect, <<>>, NoGuard, FALSE, FALSE) >>

Trees ==
    SiblingLists \cup NestedLists
        \cup {ScenarioTree, ParamTree, OptionalTree, AliasTree}
        \cup CatchAllTrees

\* The pathnames matched against them.
TestPaths ==
    { <<>>, <<"users">>, <<"42">>, <<"users", "42">>, <<"users", "42", "settings">>,
      <<"unknown">>, <<"404">>, <<"a", "1", "2", "x">>, <<"team", "users">>,
      <<"team", "42">>, <<"team", "x", "y">>, <<"files", "a", "b">>,
      <<"users", "42", "bogus">>, <<"a", "settings">>, <<"b", "settings">> }

\* ------------------------------------------------------------- bounds

\* Entries the session history keeps; a push beyond it drops the oldest.
MaxHistory == 2
\* matchRoutesAsync promises in flight at once (current and superseded).
MaxAttempts == 2
\* Where the count of consecutive same-target redirects stops counting.
MaxSameTarget == 3
\* The longest route.middleware array run step by step.
MaxChain == 3

\* -------------------------------------------------------------- state

VARIABLES
    session,          \* the locations the user moves between in this run
    history,          \* window.history / window.location: [entries, index]
    location,         \* useState location: its normalized pathname
    locationQueued,   \* a setLocation(getCurrentLocation()) awaits its render
    matchResult,      \* useState matchResult
    loaderData,       \* useState loaderData: null (None) or the id of the
                      \* route whose loader produced the data
    error,            \* useState error: null (None), "LoaderError" (a loader
                      \* failed) or "Rejection" (matchRoutesAsync rejected)
    isResolving,      \* useState isResolving
    attempts,         \* matchRoutesAsync promises not settled yet, each with
                      \* the aborted flag of its AbortController's signal
    loaders,          \* loader promises not settled yet, each with the
                      \* aborted flag of its signal and whether a later
                      \* location has superseded the attempt that started it
    sameTargetWrites, \* consecutive history writes of the redirect effect
                      \* whose target is the location already shown
    \* createRouter and the matchers on their own
    inputRoutes,      \* the route definitions given to createRouter
    dev,              \* window.__DEV__
    router,           \* what createRouter returned, once it was called
    pathname,         \* the pathname to match
    resolved,         \* what matchRoutesAsync resolved to
    serverResolved,   \* what matchServerRoutes returned
    \* one matched route's middleware chain and guard, step by step
    chain,            \* route.middleware
    routeGuard,       \* route.guard
    index,            \* `let index = 0` of executeMiddlewareChain
    frames,           \* the middlewares invoked and not returned yet,
                      \* outermost first; awaiting: it awaits its next()
    calling,          \* next() was called and has not run yet
    settling,         \* the result the innermost next() call resolves to
    invoked,          \* the calls made so far, in order (for a whole
                      \* matchRoutesAsync call: the chains and guards invoked)
    pc,               \* where matchRoutesAsync is with the route
    routeOutcome,     \* what matchRoutesAsync does with the route
    \* server-side rendering and the outlet
    staticResult,     \* what a render of <StaticRouter> left: the context
                      \* object and the matches of its router context
    outletProp,       \* the value a parent passes as <Outlet context={v} />
    outletRead,       \* what useOutletContext() returned in the child
    \* createRouter on route definitions with their path strings
    rawRoutes,        \* the route definitions, paths as written
    normalizedOnce,   \* createRouter(rawRoutes)
    normalizedTwice,  \* createRouter(createRouter(rawRoutes))
    \* the application's calls of navigate and its useBlocker hook
    thrown,           \* the codes of the errors navigate threw to its callers
    blockerFn,        \* whether the blocker function returns true
    blockerState,     \* useState state of useBlocker
    blockedLocation,  \* useState blockedLocation of useBlocker
    pendingNavigation, \* pendingNavigationRef.current of useBlocker
    \* executeMiddlewareChain with middlewares that call next() at will
    middlewareList,   \* the `middlewares` argument: for each function how
                      \* often it calls next() before and after it returns
    nextIndex,        \* `let index = 0`, shared by every call of next()
    activations,      \* per caller of next() (0 is the executor itself):
                      \* its status and the calls of next() it has yet to make
    invocationCount,  \* how often each middleware was invoked
    \* several mounted providers and the patched history methods
    windowHistory,    \* window.history.pushState and .replaceState: the
                      \* functions installed now
    providers,        \* per RouterProvider: whether its effect is mounted and
                      \* the originalPush / originalReplace its cleanup holds
    listeners,        \* the providers with a locationchange listener added
    dispatched        \* the locationchange events the last history write
                      \* dispatched

navVars == <<session, history, location, locationQueued, matchResult, loaderData, error,
             isResolving, attempts, loaders, sameTargetWrites>>

matchVars == <<inputRoutes, dev, router, pathname, resolved, serverResolved>>

chainVars == <<chain, routeGuard, index, frames, calling, settling, invoked, pc, routeOutcome>>

ssrVars == <<staticResult, outletProp, outletRead>>

normVars == <<rawRoutes, normalizedOnce, normalizedTwice>>

appVars == <<thrown, blockerFn, blockerState, blockedLocation, pendingNavigation>>

execVars == <<middlewareList, nextIndex, activations, invocationCount>>

patchVars == <<windowHistory, providers, listeners, dispatched>>

vars == <<navVars, matchVars, chainVars, ssrVars, normVars, appVars, execVars, patchVars>>


\* No result yet.
Pending == [EmptyMatchResult EXCEPT !.settled = "pending"]
ServerPending == [ServerMatchResult(<<>>, NoParams, NoRedirect, 0) EXCEPT !.settled = "pending"]
NoRouter == [created |-> FALSE, routes |-> <<>>, warnings |-> {}]
NoResult == [type |-> "none", to |-> <<>>]

\* The provider is not mounted.
NavIdle ==
    /\ session = {}
    /\ history = [entries |-> << <<>> >>, index |-> 1]
    /\ location = <<>>
    /\ locationQueued = FALSE
    /\ matchResult = EmptyMatchResult
    /\ loaderData = None
    /\ error = None
    /\ isResolving = FALSE
    /\ attempts = {}
    /\ loaders = {}
    /\ sameTargetWrites = 0

\* createRouter and the matchers are not looked at on their own.
MatchIdle ==
    /\ inputRoutes = <<>>
    /\ dev = FALSE
    /\ router = NoRouter
    /\ pathname = <<>>
    /\ resolved = Pending
    /\ serverResolved = ServerPending

\* No chain is looked at step by step.
ChainIdle ==
    /\ chain = <<>>
    /\ routeGuard = NoGuard
    /\ index = 0
    /\ frames = <<>>
    /\ calling = FALSE
    /\ settling = NoResult
    /\ invoked = <<>>
    /\ pc = "idle"
    /\ routeOutcome = None

\* The caller's context object `{}` handed to <StaticRouter>; url is
\* undefined until a redirect sets it.
EmptyContext == [action |-> None, statusCode |-> 0, url |-> NoRedirect]

\* <StaticRouter> has not rendered.
NotRendered ==
    [rendered |-> FALSE, context |-> EmptyContext, matches |-> <<>>,
     params |-> NoParams, component |-> <<>>]

\* useOutletContext() has not been called.
NotRead == [read |-> FALSE, value |-> None]

\* createRouter has not returned.
NotNormalized == [created |-> FALSE, routes |-> <<>>]

\* undefined, for an optional Location.
NoLocation == [set |-> FALSE, to |-> <<>>]

\* Nothing is rendered on the server and no outlet is rendered.
SsrIdle ==
    /\ staticResult = NotRendered
    /\ outletProp = None
    /\ outletRead = NotRead

\* createRouter is not given path strings.
NormIdle ==
    /\ rawRoutes = <<>>
    /\ normalizedOnce = NotNormalized
    /\ normalizedTwice = NotNormalized

\* navigate is called with session locations only and no component uses
\* useBlocker.
AppIdle ==
    /\ thrown = {}
    /\ blockerFn = FALSE
    /\ blockerState = "unblocked"
    /\ blockedLocation = NoLocation
    /\ pendingNavigation = None

\* executeMiddlewareChain is not followed call by call.
ExecIdle ==
    /\ middlewareList = <<>>
    /\ nextIndex = 0
    /\ activations = <<>>
    /\ invocationCount = <<>>

\* The native function, which no provider has wrapped.
Native == <<>>

\* No provider is followed through its mounts.
PatchIdle ==
    /\ windowHistory = [pushState |-> Native, replaceState |-> Native]
    /\ providers = <<>>
    /\ listeners = {}
    /\ dispatched = 0

\* window.location.pathname
windowPath == history.entries[history.index]

\* normalizePathname with the default basename "".
normalizedPath == location

\* window.history.pushState / replaceState with url `to`.
pushState(h, to) ==
    LET kept == Append(SubSeq(h.entries, 1, h.index), to)
        entries == IF Len(kept) > MaxHistory THEN Tail(kept) ELSE kept
    IN  [entries |-> entries, index |-> Len(entries)]

replaceState(h, to) == [h EXCEPT !.entries[h.index] = to]

\* The history write of navigate(to, options) for a string `to` that is a
\* valid URL; every write also queues setLocation(getCurrentLocation()).
navigate(h, to, replace) == IF replace THEN replaceState(h, to) ELSE pushState(h, to)

\* The redirect effect: `if (matchResult.redirect) navigate(matchResult.redirect)`.
\* Gives the history after the effect ran with the given matchResult.
RedirectEffect(h, result) ==
    IF result.redirect.set THEN navigate(h, result.redirect.to, FALSE) ELSE h

\* The count of same-target redirect writes after the redirect effect ran.
CountSameTarget(h, result, count) ==
    IF result.redirect.set /\ result.redirect.to = h.entries[h.index]
    THEN IF count < MaxSameTarget THEN count + 1 ELSE count
    ELSE count

\* abortController.abort() on every controller handed out so far.
AbortAll(promises) == {[p EXCEPT !.aborted = TRUE] : p \in promises}

\* The loader effect, run when matchResult.loader changed: its cleanup
\* aborts the previous loader's controller, then the new loader (if any)
\* is started.
LoaderEffectLoaders(result) ==
    AbortAll(loaders) \cup
        (IF result.loader.has
         THEN {[route |-> result.loader.route, aborted |-> FALSE,
                superseded |-> FALSE]}
         ELSE {})

\* A run follows a user who moves between two locations of the application
\* (redirects add their targets); the runs together cover every pair.
Sessions == {{p, q} : p \in Paths, q \in Paths}

Init ==
    /\ session \in Sessions
    /\ \E p \in session : history = [entries |-> <<p>>, index |-> 1]
    /\ location = windowPath
    /\ locationQueued = FALSE
    /\ matchResult = EmptyMatchResult
    /\ loaderData = None
    /\ error = None
    /\ isResolving = TRUE
    /\ attempts = {[path |-> location, aborted |-> FALSE]}
    /\ loaders = {}
    /\ sameTargetWrites = 0
    /\ MatchIdle
    /\ ChainIdle
    /\ SsrIdle
    /\ NormIdle
    /\ AppIdle
    /\ ExecIdle
    /\ PatchIdle

\* The application calls navigate(to, {replace}).
Navigate(to, replace) ==
    /\ Cardinality(attempts) < MaxAttempts
    /\ to \in session
    /\ history' = navigate(history, to, replace)
    /\ locationQueued' = TRUE
    /\ sameTargetWrites' = 0
    /\ UNCHANGED <<session, location, matchResult, loaderData, error, isResolving,
                   attempts, loaders,
                   matchVars, chainVars, ssrVars, normVars, appVars, execVars, patchVars>>

\* The user goes back or forward; the popstate listener queues setLocation.
PopState(delta) ==
    /\ Cardinality(attempts) < MaxAttempts
    /\ history.index + delta \in DOMAIN history.entries
    /\ history' = [history EXCEPT !.index = @ + delta]
    /\ locationQueued' = TRUE
    /\ sameTargetWrites' = 0
    /\ UNCHANGED <<session, location, matchResult, loaderData, error, isResolving,
                   attempts, loaders,
                   matchVars, chainVars, ssrVars, normVars, appVars, execVars, patchVars>>

\* React renders the queued location and runs the effects whose
\* dependencies changed: the matching effect when normalizedPath changed,
\* and the redirect effect, because `navigate` depends on location.key and
\* every location object has a fresh key.
Render ==
    /\ locationQueued
    /\ location' = windowPath
    /\ IF location' # location
       THEN /\ attempts' = AbortAll(attempts) \cup
                              {[path |-> location', aborted |-> FALSE]}
            /\ isResolving' = TRUE
            /\ loaders' = {[l EXCEPT !.superseded = TRUE] : l \in loaders}
       ELSE UNCHANGED <<attempts, isResolving, loaders>>
    /\ history' = RedirectEffect(history, matchResult)
    /\ locationQueued' = matchResult.redirect.set
    /\ sameTargetWrites' = CountSameTarget(history, matchResult, sameTargetWrites)
    /\ UNCHANGED <<session, matchResult, loaderData, error,
                   matchVars, chainVars, ssrVars, normVars, appVars, execVars, patchVars>>

\* A `.then` callback that commits without looking at the signal.
ThenCommitsUnchecked(aborted) == TRUE

\* A `.then` callback that drops every result.
ThenCommitsNever(aborted) == FALSE

\* Whether the `.then` callback of the matching effect commits the result
\* of an attempt whose signal has the given aborted flag.
ThenCommits(aborted) == ~aborted

\* The state after a new matchResult was set and rendered: the redirect
\* effect runs when matchResult.redirect changed, the loader effect when
\* matchResult.loader changed (a loader object is new with every result).
CommitEffects(result, clearedData) ==
    /\ matchResult' = result
    /\ IF result.redirect # matchResult.redirect
       THEN /\ history' = RedirectEffect(history, result)
            /\ locationQueued' = (locationQueued \/ result.redirect.set)
            /\ sameTargetWrites' = CountSameTarget(history, result, sameTargetWrites)
       ELSE UNCHANGED <<history, locationQueued, sameTargetWrites>>
    /\ IF result.loader.has \/ matchResult.loader.has
       THEN /\ loaders' = LoaderEffectLoaders(result)
            /\ loaderData' = IF result.loader.has THEN clearedData ELSE None
       ELSE /\ loaders' = loaders
            /\ loaderData' = clearedData

\* The promise of an attempt settles and its `.then` / `.catch` callback runs.
AttemptSettles(a) ==
    /\ a \in attempts
    /\ attempts' = attempts \ {a}
    /\ LET result == matchRoutesAsync(routes, a.path, <<>>, <<>>)
       IN  IF result.settled = "fulfilled"
           THEN IF ThenCommits(a.aborted)
                THEN /\ CommitEffects(result,
                           IF result.loader.has THEN None ELSE loaderData)
                     /\ error' = None
                     /\ isResolving' = FALSE
                ELSE UNCHANGED <<history, locationQueued, matchResult,
                                 loaderData, error, isResolving, loaders,
                                 sameTargetWrites>>
           ELSE \* .catch: the error is no AbortError
                /\ CommitEffects(EmptyMatchResult, loaderData)
                /\ error' = "Rejection"
                /\ isResolving' = FALSE
    /\ UNCHANGED <<session, location,
                   matchVars, chainVars, ssrVars, normVars, appVars, execVars, patchVars>>

\* How a loader promise can settle: with data, with an error of its own, or
\* (only once its signal is aborted) with an AbortError.
LoaderOutcomes(l) == {"data", "error"} \cup (IF l.aborted THEN {"abort"} ELSE {})

\* A loader promise settles and its `.then` / `.catch` callback runs.
LoaderSettles(l, outcome) ==
    /\ l \in loaders
    /\ outcome \in LoaderOutcomes(l)
    /\ loaders' = loaders \ {l}
    /\ CASE outcome = "data" -> loaderData' = l.route /\ error' = None
         [] outcome = "error" -> error' = "LoaderError" /\ UNCHANGED loaderData
         [] OTHER -> UNCHANGED <<loaderData, error>>
    /\ UNCHANGED <<session, history, location, locationQueued, matchResult,
                   isResolving, attempts, sameTargetWrites,
                   matchVars, chainVars, ssrVars, normVars, appVars, execVars, patchVars>>

\* showLoading of the render (isPending is true only while the transition
\* that sets the location renders).
showLoading == isResolving \/ (matchResult.loader.has /\ loaderData = None)

\* The built-in <Page404 /> of the library.
Page404 == "Page404"

\* The view the provider renders: error -> loading -> content -> 404.
component ==
    IF (error # None \/ matchResult.error # None) /\ matchResult.errorElement # None
    THEN [view |-> "errorElement", of |-> <<matchResult.errorElement>>]
    ELSE IF showLoading
    THEN [view |-> "loading", of |-> <<>>]
    ELSE IF matchResult.component # <<>>
    THEN [view |-> "component", of |-> matchResult.component]
    ELSE [view |-> "page404",
          of |-> <<OrElse(matchResult.page404Component, Page404)>>]

Next ==
    \/ \E to \in Paths, replace \in BOOLEAN : Navigate(to, replace)
    \/ \E delta \in {-1, 1} : PopState(delta)
    \/ Render
    \/ \E a \in attempts : AttemptSettles(a)
    \/ \E l \in loaders, outcome \in {"data", "error", "abort"} : LoaderSettles(l, outcome)

Spec == Init /\ [][Next]_vars

\* The provider under the scheduling of React: a state update that was
\* queued is rendered.  No promise has to settle: the promises of attempts
\* and loaders may stay pending for ever.
LiveSpec == Init /\ [][Next]_vars /\ WF_vars(Render)

\* --------------------------------------- createRouter and the matchers

MatchInit ==
    /\ inputRoutes \in Trees
    /\ dev \in BOOLEAN
    /\ pathname \in TestPaths
    /\ router = NoRouter
    /\ resolved = Pending
    /\ serverResolved = ServerPending
    /\ NavIdle
    /\ ChainIdle
    /\ SsrIdle
    /\ NormIdle
    /\ AppIdle
    /\ ExecIdle
    /\ PatchIdle

\* The application calls createRouter(inputRoutes).
CreateRouter ==
    /\ ~router.created
    /\ router' = createRouter(inputRoutes, dev)
    /\ UNCHANGED <<inputRoutes, dev, pathname, resolved, serverResolved,
                   navVars, chainVars, ssrVars, normVars, appVars, execVars, patchVars>>

\* matchRoutesAsync(routes, pathname) with the routes createRouter returned;
\* `invoked` gets the middleware chains and guards it invoked, in order.
Resolve ==
    /\ router.created
    /\ resolved = Pending
    /\ resolved' = matchRoutesAsync(router.routes, pathname, <<>>, <<>>)
    /\ invoked' = InvocationLog(orderedRoutes(router.routes), 1, pathname, <<>>, <<>>)
    /\ UNCHANGED <<inputRoutes, dev, pathname, router, serverResolved,
                   chain, routeGuard, index, frames, calling, settling, pc,
                   routeOutcome,
                   navVars, ssrVars, normVars, appVars, execVars, patchVars>>

\* matchServerRoutes(routes, pathname) with the same routes.
ResolveServer ==
    /\ router.created
    /\ serverResolved = ServerPending
    /\ serverResolved' = matchServerRoutes(router.routes, pathname, <<>>)
    /\ UNCHANGED <<inputRoutes, dev, pathname, router, resolved,
                   navVars, chainVars, ssrVars, normVars, appVars, execVars, patchVars>>

MatchNext == CreateRouter \/ Resolve \/ ResolveServer

MatchSpec == MatchInit /\ [][MatchNext]_vars

\* ------------------------------------------ StaticRouter and the outlet

\* matchPath of StaticRouter: the first alias pattern that matches.  Its
\* extractParams has no partialMatch parameter: the numbers of parts must
\* be equal unless the pattern has a catch-all, which is what the client's
\* extractParams does when partialMatch is false.
matchPath(routePattern, currentPath) == matchPathPattern(routePattern, currentPath, FALSE)

\* What findMatch returns, with the context object as its calls left it;
\* found = FALSE is null, match holds the RouteMatch or nothing.
StaticMatch(found, componentOf, match, params, context) ==
    [found |-> found, component |-> componentOf, match |-> match,
     params |-> params, context |-> context]

\* context.action = "REDIRECT"; context.url = to; context.statusCode = 302
SetRedirect(context, to) ==
    [context EXCEPT !.action = "REDIRECT", !.url = To(to), !.statusCode = 302]

\* context.action = action; context.statusCode = statusCode
SetStatus(context, action, statusCode) ==
    [context EXCEPT !.action = action, !.statusCode = statusCode]

\* findMatch(routesList, currentPath, parentPath) of StaticRouter, which
\* writes the context object as it goes.  The routes are ordered in the
\* three buckets, and the 404 route is told by the string comparison, as
\* in matchServerRoutes.  The guard is called synchronously: a string is a
\* redirect, false skips the route, anything else lets it match (a guard
\* that throws makes the render throw; no tree rendered here has one).
\* Middleware is not looked at.
RECURSIVE findMatch(_, _, _, _)
RECURSIVE TryStaticRoutes(_, _, _, _, _, _)

\* The loop `for (const route of orderedRoutes)` from index i on, and what
\* follows it.
TryStaticRoutes(routesList, ordered, i, currentPath, parentPath, context) ==
    IF i > Len(ordered)
    THEN LET found404 == SelectSeq(routesList, isServer404)
         IN  IF Len(found404) > 0
             THEN StaticMatch(TRUE, <<found404[Len(found404)].id>>, <<>>, NoParams,
                              SetStatus(context, "NOT_FOUND", 404))
             ELSE StaticMatch(FALSE, <<>>, <<>>, NoParams, context)
    ELSE
    LET route == ordered[i]
        fullPath == parentPath \o route.paths[1]
        patterns == [k \in DOMAIN route.paths |-> parentPath \o route.paths[k]]
        found == matchPath(patterns, currentPath)
        routeMatch == [route |-> route.id, params |-> found.params,
                       pathname |-> currentPath, pathnameBase |-> parentPath,
                       pattern |-> found.pattern]
        childMatch == findMatch(route.children, currentPath, fullPath, context)
    IN
    IF found.match
    THEN IF route.redirectTo.set
         THEN StaticMatch(FALSE, <<>>, <<>>, NoParams,
                          SetRedirect(context, route.redirectTo.to))
         ELSE IF route.guard.act = "string"
         THEN StaticMatch(FALSE, <<>>, <<>>, NoParams,
                          SetRedirect(context, route.guard.to))
         ELSE IF route.guard.act = "false"
         THEN TryStaticRoutes(routesList, ordered, i + 1, currentPath, parentPath,
                              context)
         ELSE IF Len(route.children) > 0 /\ childMatch.found
         THEN StaticMatch(TRUE, <<route.id>> \o childMatch.component, <<routeMatch>>,
                          found.params, childMatch.context)
         ELSE StaticMatch(TRUE, <<route.id>>, <<routeMatch>>, found.params,
                  SetStatus(IF Len(route.children) > 0 THEN childMatch.context
                            ELSE context, "OK", 200))
    ELSE IF childMatch.found
         THEN childMatch
         ELSE TryStaticRoutes(routesList, ordered, i + 1, currentPath, parentPath,
                              childMatch.context)

findMatch(routesList, currentPath, parentPath, context) ==
    TryStaticRoutes(routesList, orderedServerRoutes(routesList), 1, currentPath,
                    parentPath, context)

\* A render of <StaticRouter routes location context>: what it leaves in
\* the caller's context object and in its router context.
StaticRouter(routesList, currentPath, context) ==
    LET result == findMatch(routesList, currentPath, <<>>, context)
    IN  [rendered |-> TRUE,
         context |-> IF ~result.found
                     THEN SetStatus(result.context, "NOT_FOUND", 404)
                     ELSE result.context,
         matches |-> result.match,
         params |-> result.params,
         component |-> IF result.found THEN result.component ELSE <<Page404>>]

\* The value of the OutletProvider that matchRoutesAsync and findMatch put
\* around a parent's component: neither passes a `context` prop.
OutletProvider(outlet) == [outlet |-> outlet, context |-> None]

\* <Outlet context={v} />: it returns the outlet of the provider around it;
\* the context prop is only looked at to log a warning.
Outlet(provided, contextProp) == provided.outlet

\* useOutletContext() under a provider.
useOutletContext(provided) == provided.context

\* A tree whose routes redirect or are guarded: /old has redirectTo, the
\* middleware of /dashboard redirects, the guard of /account returns a path,
\* the guard of /secret returns false, /app/legacy has redirectTo.
GuardedTree ==
    << Leaf("home", <<>>),
       Route("old", << <<S("old")>> >>, <<>>, To(<<"login">>), <<>>, NoGuard,
             FALSE, FALSE),
       Route("dashboard", << <<S("dashboard")>> >>, <<>>, NoRedirect,
             << Mw("redirect", <<"login">>) >>, NoGuard, FALSE, FALSE),
       Route("account", << <<S("account")>> >>, <<>>, NoRedirect, <<>>,
             Guard("string", <<"login">>), FALSE, FALSE),
       Route("secret", << <<S("secret")>> >>, <<>>, NoRedirect, <<>>,
             Guard("false", <<>>), FALSE, FALSE),
       Route("app", << <<S("app")>> >>,
             << Route("legacy", << <<S("legacy")>> >>, <<>>, To(<<"login">>),
                      <<>>, NoGuard, FALSE, FALSE) >>,
             NoRedirect, <<>>, NoGuard, FALSE, FALSE),
       Leaf("login", <<S("login")>>),
       Leaf("missing", <<S("404")>>) >>

\* /org (middleware, guard) with the children staff (middleware, guard;
\* child desk with a guard) and vault (blocked by its middleware), and
\* /closed, whose guard returns false, with the child inner.
NestedGuardTree ==
    << Route("org", << <<S("org")>> >>,
             << Route("staff", << <<S("staff")>> >>,
                      << Route("desk", << <<S("desk")>> >>, <<>>, NoRedirect, <<>>,
                               Guard("true", <<>>), FALSE, FALSE) >>,
                      NoRedirect, << Mw("next", <<>>), Mw("continue", <<>>) >>,
                      Guard("true", <<>>), FALSE, FALSE),
                Route("vault", << <<S("vault")>> >>, <<>>, NoRedirect,
                      << Mw("block", <<>>) >>, NoGuard, FALSE, FALSE) >>,
             NoRedirect, << Mw("next", <<>>) >>, Guard("true", <<>>), FALSE, FALSE),
       Route("closed", << <<S("closed")>> >>, << Leaf("inner", <<S("inner")>>) >>,
             NoRedirect, <<>>, Guard("false", <<>>), FALSE, FALSE) >>

\* /members/:id? whose middleware blocks and whose guard returns false,
\* with the catch-all child *.
SkippedParentTree ==
    << Route("members", << <<S("members"), Seg("optional", "id")>> >>,
             << Leaf("any", <<Seg("catchAll", "")>>) >>,
             NoRedirect, << Mw("block", <<>>) >>, Guard("false", <<>>),
             FALSE, FALSE) >>

\* The trees rendered on the server as well as resolved on the client.
SsrTrees ==
    {GuardedTree, ScenarioTree, ParamTree, OptionalTree, NestedGuardTree,
     SkippedParentTree}

\* The request URLs.
SsrPaths ==
    { <<>>, <<"old">>, <<"dashboard">>, <<"account">>, <<"secret">>,
      <<"app", "legacy">>, <<"app">>, <<"login">>, <<"unknown">>,
      <<"users", "42">>, <<"users", "42", "settings">>, <<"a", "1", "2", "x">>,
      <<"org", "staff", "desk">>, <<"org", "vault">>, <<"closed", "inner">>,
      <<"members">>, <<"members", "7">> }

\* The values a parent passes to its outlet; None is no context prop.
OutletValues == {None, "user"}

SsrInit ==
    /\ inputRoutes \in SsrTrees
    /\ dev = FALSE
    /\ pathname \in SsrPaths
    /\ router = NoRouter
    /\ resolved = Pending
    /\ serverResolved = ServerPending
    /\ SsrIdle
    /\ NavIdle
    /\ ChainIdle
    /\ NormIdle
    /\ AppIdle
    /\ ExecIdle
    /\ PatchIdle

\* The server renders <StaticRouter> for the request, with a fresh context
\* object.
RenderStatic ==
    /\ router.created
    /\ ~staticResult.rendered
    /\ staticResult' = StaticRouter(router.routes, pathname, EmptyContext)
    /\ UNCHANGED <<outletProp, outletRead, navVars, matchVars, chainVars, normVars,
                   appVars, execVars, patchVars>>

\* The client renders the resolved component of a nested match: the parent
\* renders <Outlet context={v} /> and the child rendered in that outlet
\* calls useOutletContext().
RenderOutlet(v) ==
    /\ resolved # Pending
    /\ Len(resolved.component) > 1
    /\ ~outletRead.read
    /\ LET provided == OutletProvider(Tail(resolved.component))
       IN  /\ Outlet(provided, v) # <<>>
           /\ outletProp' = v
           /\ outletRead' = [read |-> TRUE, value |-> useOutletContext(provided)]
    /\ UNCHANGED <<staticResult, navVars, matchVars, chainVars, normVars, appVars, execVars, patchVars>>

SsrNext ==
    \/ CreateRouter
    \/ Resolve
    \/ ResolveServer
    \/ RenderStatic
    \/ \E v \in OutletValues : RenderOutlet(v)

SsrSpec == SsrInit /\ [][SsrNext]_vars

\* ------------------------- a matched route's chain and guard, by steps

\* An entry of the record of calls: middleware number mw was invoked,
\* called next(), or returned; the guard (mw = 0) was invoked.
Event(call, mw) == [call |-> call, mw |-> mw]

\* An index that moves on by two.
AdvanceIndexTwice(i) == i + 2

\* An index that stays where it is.
AdvanceIndexStays(i) == i

\* `index++` in `middlewares[index++]`.
AdvanceIndex(i) == i + 1

\* A matcher that takes a blocked chain for one that continued.
AfterChainIgnoresBlock(middlewareResult) ==
    CASE middlewareResult.type = "redirect" -> "redirect"
      [] OTHER -> "guard"

\* A matcher that goes on to the guard after a redirect.
AfterChainGuardsRedirect(middlewareResult) ==
    CASE middlewareResult.type = "block" -> "skip"
      [] OTHER -> "guard"

\* What matchRoutesAsync does with the result of the chain: return a
\* redirect result, skip the route, or go on to the guard.
AfterChain(middlewareResult) ==
    CASE middlewareResult.type = "redirect" -> "redirect"
      [] middlewareResult.type = "block" -> "skip"
      [] OTHER -> "guard"

\* The pattern of a route matched: the route has any middleware array of at
\* most MaxChain functions and any guard.
ChainInit ==
    /\ chain \in UNION {[1..n -> {Mw(act, <<"login">>) : act \in MiddlewareActs}] :
                           n \in 0..MaxChain}
    /\ routeGuard \in {NoGuard} \cup {Guard(act, <<"login">>) : act \in GuardActs}
    /\ index = 0
    /\ frames = <<>>
    /\ calling = FALSE
    /\ settling = NoResult
    /\ invoked = <<>>
    /\ pc = "start"
    /\ routeOutcome = None
    /\ NavIdle
    /\ MatchIdle
    /\ SsrIdle
    /\ NormIdle
    /\ AppIdle
    /\ ExecIdle
    /\ PatchIdle

\* `if (route.middleware && route.middleware.length > 0)`: the executor is
\* called and calls next(); without middleware the guard is next.
StartRoute ==
    /\ pc = "start"
    /\ IF Len(chain) > 0
       THEN pc' = "chain" /\ calling' = TRUE
       ELSE pc' = "guard" /\ calling' = FALSE
    /\ UNCHANGED <<chain, routeGuard, index, frames, settling, invoked,
                   routeOutcome,
                   navVars, matchVars, ssrVars, normVars, appVars, execVars, patchVars>>

\* A call of next() runs: past the end it resolves to continue, else it
\* takes middlewares[index++] and invokes it.
CallNext ==
    /\ pc = "chain"
    /\ calling
    /\ calling' = FALSE
    /\ IF index >= Len(chain)
       THEN /\ settling' = Continue
            /\ UNCHANGED <<index, frames, invoked>>
       ELSE /\ index' = AdvanceIndex(index)
            /\ frames' = Append(frames, [mw |-> index + 1, awaiting |-> FALSE])
            /\ invoked' = Append(invoked, Event("invoke", index + 1))
            /\ UNCHANGED settling
    /\ UNCHANGED <<chain, routeGuard, pc, routeOutcome,
                   navVars, matchVars, ssrVars, normVars, appVars, execVars, patchVars>>

\* The middleware that runs calls next() and awaits it, or returns (or
\* throws), and its call of next() resolves to the normalized result.
MiddlewareRuns ==
    /\ pc = "chain"
    /\ ~calling
    /\ settling = NoResult
    /\ frames # <<>>
    /\ ~frames[Len(frames)].awaiting
    /\ LET mw == frames[Len(frames)].mw
           middleware == chain[mw]
       IN  IF middleware.act = "next"
           THEN /\ frames' = [frames EXCEPT ![Len(frames)].awaiting = TRUE]
                /\ calling' = TRUE
                /\ invoked' = Append(invoked, Event("next", mw))
                /\ UNCHANGED settling
           ELSE /\ frames' = SubSeq(frames, 1, Len(frames) - 1)
                /\ settling' =
                       CASE middleware.act = "redirect" -> RedirectTo(middleware.to)
                         [] middleware.act = "block" -> Block
                         [] middleware.act \in {"continue", "invalid"} -> Continue
                         [] OTHER -> MiddlewareThrew(middleware.act)
                /\ invoked' = Append(invoked, Event("return", mw))
                /\ UNCHANGED calling
    /\ UNCHANGED <<chain, routeGuard, index, pc, routeOutcome,
                   navVars, matchVars, ssrVars, normVars, appVars, execVars, patchVars>>

\* The next() a middleware awaits has resolved: the middleware returns that
\* result, and the call of next() that invoked it resolves to it.
NextResolves ==
    /\ pc = "chain"
    /\ settling # NoResult
    /\ frames # <<>>
    /\ frames' = SubSeq(frames, 1, Len(frames) - 1)
    /\ invoked' = Append(invoked, Event("return", frames[Len(frames)].mw))
    /\ UNCHANGED <<chain, routeGuard, index, calling, settling, pc, routeOutcome,
                   navVars, matchVars, ssrVars, normVars, appVars, execVars, patchVars>>

\* `await executeMiddlewareChain(...)` resumes with the result.
ChainResolves ==
    /\ pc = "chain"
    /\ settling # NoResult
    /\ frames = <<>>
    /\ LET after == AfterChain(settling)
       IN  IF after = "guard"
           THEN pc' = "guard" /\ UNCHANGED routeOutcome
           ELSE pc' = "done" /\ routeOutcome' = after
    /\ UNCHANGED <<chain, routeGuard, index, frames, calling, settling, invoked,
                   navVars, matchVars, ssrVars, normVars, appVars, execVars, patchVars>>

\* `if (route.guard)`: the guard is invoked and its result handled; the
\* route is matched when the guard allows it or there is none.
RunGuard ==
    /\ pc = "guard"
    /\ pc' = "done"
    /\ IF routeGuard.act = None
       THEN routeOutcome' = "match" /\ UNCHANGED invoked
       ELSE /\ invoked' = Append(invoked, Event("guard", 0))
            /\ routeOutcome' =
                   LET kind == GuardStep(routeGuard).kind
                   IN  IF kind = "pass" THEN "match" ELSE kind
    /\ UNCHANGED <<chain, routeGuard, index, frames, calling, settling,
                   navVars, matchVars, ssrVars, normVars, appVars, execVars, patchVars>>

ChainNext ==
    \/ StartRoute
    \/ CallNext
    \/ MiddlewareRuns
    \/ NextResolves
    \/ ChainResolves
    \/ RunGuard

ChainSpec == ChainInit /\ [][ChainNext]_vars

\* ------------------------------------- createRouter on path strings

\* A path string is the sequence of its characters; route.path is a string
\* or an array of strings.
PathString(chars) == [array |-> FALSE, items |-> <<chars>>]
PathArray(items) == [array |-> TRUE, items |-> items]

\* p.replace(/^\/+/, "")
RECURSIVE StripLeadingSlashes(_)
StripLeadingSlashes(p) ==
    IF p # <<>> /\ Head(p) = "/" THEN StripLeadingSlashes(Tail(p)) ELSE p

\* normalized.join("|")
RECURSIVE JoinWithBar(_)
JoinWithBar(strings) ==
    IF strings = <<>> THEN <<>>
    ELSE IF Len(strings) = 1 THEN strings[1]
    ELSE strings[1] \o <<"|">> \o JoinWithBar(Tail(strings))

\* A normalizePath that removes one leading slash only: p.slice(1).
normalizePathOneSlash(path) ==
    PathString(JoinWithBar(
        [k \in DOMAIN path.items |->
            LET p == path.items[k]
            IN  IF p = <<>> THEN <<>>
                ELSE IF p = <<"/">> THEN <<>>
                ELSE IF Head(p) = "/" THEN Tail(p) ELSE p]))

\* normalizePath(path) of createRouter: a string, joined with "|" for an
\* array.
normalizePath(path) ==
    PathString(JoinWithBar(
        [k \in DOMAIN path.items |->
            LET p == path.items[k]
            IN  IF p = <<>> THEN <<>>
                ELSE IF p = <<"/">> THEN <<>>
                ELSE IF Head(p) = "/" THEN StripLeadingSlashes(p) ELSE p]))

\* normalizeRoutes on routes that carry their path as written; validateRoute
\* changes nothing.
RECURSIVE normalizeRawRoutes(_)
normalizeRawRoutes(inputList) ==
    [k \in DOMAIN inputList |->
        [path |-> normalizePath(inputList[k].path),
         children |-> normalizeRawRoutes(inputList[k].children)]]

\* The longest array given as route.path.
MaxAliases == 2

\* Path strings as an application writes them: "", "/", "//", "/a", "//a",
\* "a", "a|/b", "/|a".
RawStrings ==
    { <<>>, <<"/">>, <<"/", "/">>, <<"/", "a">>, <<"/", "/", "a">>, <<"a">>,
      <<"a", "|", "/", "b">>, <<"/", "|", "a">> }

\* route.path: a string or an array of at most MaxAliases strings.
RawPaths ==
    {PathString(p) : p \in RawStrings} \cup
        {PathArray(a) : a \in UNION {[1..n -> RawStrings] : n \in 0..MaxAliases}}

\* A route with one child.
RawTrees ==
    { << [path |-> parent,
          children |-> << [path |-> PathString(child), children |-> <<>>] >>] >> :
        parent \in RawPaths, child \in RawStrings }

NormInit ==
    /\ rawRoutes \in RawTrees
    /\ normalizedOnce = NotNormalized
    /\ normalizedTwice = NotNormalized
    /\ NavIdle
    /\ MatchIdle
    /\ ChainIdle
    /\ SsrIdle
    /\ AppIdle
    /\ ExecIdle
    /\ PatchIdle

\* createRouter(rawRoutes)
CreateRouterOnce ==
    /\ ~normalizedOnce.created
    /\ normalizedOnce' = [created |-> TRUE, routes |-> normalizeRawRoutes(rawRoutes)]
    /\ UNCHANGED <<rawRoutes, normalizedTwice, navVars, matchVars, chainVars, ssrVars,
                   appVars, execVars, patchVars>>

\* createRouter(createRouter(rawRoutes))
CreateRouterAgain ==
    /\ normalizedOnce.created
    /\ ~normalizedTwice.created
    /\ normalizedTwice' =
           [created |-> TRUE, routes |-> normalizeRawRoutes(normalizedOnce.routes)]
    /\ UNCHANGED <<rawRoutes, normalizedOnce, navVars, matchVars, chainVars, ssrVars,
                   appVars, execVars, patchVars>>

NormNext == CreateRouterOnce \/ CreateRouterAgain

NormSpec == NormInit /\ [][NormNext]_vars

\* ------------------------------- the application: navigate, useBlocker

\* A URL string given to navigate is the sequence of its "/" characters and
\* of the words between them: "/shop/cart" is <<"/", "shop", "/", "cart">>.

\* targetPath of navigate for a string without a scheme and no basename:
\* `to.startsWith("/") ? to : "/" + to`.
targetPath(to) == IF to # <<>> /\ Head(to) = "/" THEN to ELSE <<"/">> \o to

\* A validateUrl that accepts every string.
validateUrlAlways(url) == TRUE

\* validateUrl(url): whether `new URL(url, window.location.origin)` returns.
\* For an http(s) origin a string that starts with "//" names a host, which
\* is what follows the slashes; the URL parser fails when that host is empty.
validateUrl(url) ==
    ~(Len(url) >= 2 /\ url[1] = "/" /\ url[2] = "/" /\ StripLeadingSlashes(url) = <<>>)

\* window.location.pathname after a history write of the url, as parts.
pathnameOf(url) == SelectSeq(url, LAMBDA c : c # "/")

\* The locations of the application that has the blocker: / and two nested
\* routes with loaders.
AppPaths == { <<>>, <<"shop", "cart">>, <<"team", "roster">> }

\* The strings the application calls navigate with: "/", "/shop/cart",
\* "team/roster", "//" and "///".
RawTargets ==
    { <<"/">>, <<"/", "shop", "/", "cart">>, <<"team", "/", "roster">>,
      <<"/", "/">>, <<"/", "/", "/">> }

AppInit ==
    /\ session \in {{p, q} : p \in AppPaths, q \in AppPaths}
    /\ \E p \in session : history = [entries |-> <<p>>, index |-> 1]
    /\ location = windowPath
    /\ locationQueued = FALSE
    /\ matchResult = EmptyMatchResult
    /\ loaderData = None
    /\ error = None
    /\ isResolving = TRUE
    /\ attempts = {[path |-> location, aborted |-> FALSE]}
    /\ loaders = {}
    /\ sameTargetWrites = 0
    /\ thrown = {}
    /\ blockerFn \in BOOLEAN
    /\ blockerState = "unblocked"
    /\ blockedLocation = NoLocation
    /\ pendingNavigation = None
    /\ MatchIdle
    /\ ChainIdle
    /\ SsrIdle
    /\ NormIdle
    /\ ExecIdle
    /\ PatchIdle

\* The application calls navigate(to, {replace}) with a string: an invalid
\* URL makes RouterErrors.invalidRoute throw to the caller before anything
\* is written; navigate does not look at any blocker.
NavigateString(to, replace) ==
    IF validateUrl(targetPath(to))
    THEN Navigate(pathnameOf(targetPath(to)), replace)
    ELSE /\ thrown' = thrown \cup {"INVALID_ROUTE"}
         /\ UNCHANGED <<navVars, matchVars, chainVars, ssrVars, normVars, blockerFn,
                        blockerState, blockedLocation, pendingNavigation, execVars, patchVars>>

\* blocker.proceed(): setState("proceeding"), the pending navigation if the
\* ref holds one, then setState("unblocked"); the state updates are batched.
Proceed ==
    /\ blockerState' = "unblocked"
    /\ blockedLocation' = NoLocation
    /\ pendingNavigation' = None
    /\ IF pendingNavigation # None
       THEN /\ history' =
                  CASE pendingNavigation.action = "PUSH" ->
                         pushState(history, pendingNavigation.nextLocation)
                    [] pendingNavigation.action = "REPLACE" ->
                         replaceState(history, pendingNavigation.nextLocation)
                    [] OTHER -> history
            /\ locationQueued' = TRUE
       ELSE UNCHANGED <<history, locationQueued>>
    /\ UNCHANGED <<session, location, matchResult, loaderData, error, isResolving,
                   attempts, loaders, sameTargetWrites, thrown, blockerFn,
                   matchVars, chainVars, ssrVars, normVars, execVars, patchVars>>

\* blocker.reset()
Reset ==
    /\ blockerState' = "unblocked"
    /\ blockedLocation' = NoLocation
    /\ pendingNavigation' = None
    /\ UNCHANGED <<navVars, thrown, blockerFn, matchVars, chainVars, ssrVars,
                   normVars, execVars, patchVars>>

AppNext ==
    \/ \E to \in RawTargets, replace \in BOOLEAN : NavigateString(to, replace)
    \/ \E delta \in {-1, 1} : PopState(delta)
    \/ Render
    \/ \E a \in attempts : AttemptSettles(a)
    \/ \E l \in loaders, outcome \in {"data", "error", "abort"} : LoaderSettles(l, outcome)
    \/ Proceed
    \/ Reset

AppSpec == AppInit /\ [][AppNext]_vars

\* ---------------- executeMiddlewareChain with next() called at will

\* The invocations of one middleware that are followed.
MaxInvocations == 2

\* executeMiddlewareChain(middlewares, context) is called.  A middleware is
\* given by the calls of next() it makes: `before` of them while it runs,
\* `after` of them once it has returned (from a timer or a promise callback
\* it left behind).  The executor (caller 0) makes the one call of
\* `return next()`, unless the array is empty.  The results of the calls
\* are followed in ChainSpec; here the shared index and the invocations are.
ExecInit ==
    /\ middlewareList \in UNION {[1..n -> [before : 0..2, after : 0..1]] :
                                    n \in 0..MaxChain}
    /\ nextIndex = 0
    /\ activations =
           [m \in 0..Len(middlewareList) |->
               IF m = 0
               THEN [status |-> "running", after |-> 0,
                     before |-> IF Len(middlewareList) = 0 THEN 0 ELSE 1]
               ELSE [status |-> "idle", before |-> 0, after |-> 0]]
    /\ invocationCount = [m \in 1..Len(middlewareList) |-> 0]
    /\ NavIdle
    /\ MatchIdle
    /\ ChainIdle
    /\ SsrIdle
    /\ NormIdle
    /\ AppIdle
    /\ PatchIdle

\* Caller m calls next(): past the end of the array the call resolves to
\* continue, else it takes middlewares[index++] and invokes it.
NextCalled(m) ==
    /\ m \in DOMAIN activations
    /\ \/ activations[m].status = "running" /\ activations[m].before > 0
       \/ activations[m].status = "returned" /\ activations[m].after > 0
    /\ LET spent == IF activations[m].status = "running"
                    THEN [activations EXCEPT ![m].before = @ - 1]
                    ELSE [activations EXCEPT ![m].after = @ - 1]
           k == nextIndex + 1
       IN  IF nextIndex >= Len(middlewareList)
           THEN /\ activations' = spent
                /\ UNCHANGED <<nextIndex, invocationCount>>
           ELSE /\ invocationCount[k] < MaxInvocations
                /\ nextIndex' = AdvanceIndex(nextIndex)
                /\ invocationCount' = [invocationCount EXCEPT ![k] = @ + 1]
                /\ activations' =
                       [spent EXCEPT ![k] = [status |-> "running",
                                             before |-> middlewareList[k].before,
                                             after |-> middlewareList[k].after]]
    /\ UNCHANGED <<middlewareList,
                   navVars, matchVars, chainVars, ssrVars, normVars, appVars, patchVars>>

\* Caller m returns, having made the calls of next() it makes while it runs.
Returns(m) ==
    /\ m \in DOMAIN activations
    /\ activations[m].status = "running"
    /\ activations[m].before = 0
    /\ activations' = [activations EXCEPT ![m].status = "returned"]
    /\ UNCHANGED <<middlewareList, nextIndex, invocationCount,
                   navVars, matchVars, chainVars, ssrVars, normVars, appVars, patchVars>>

ExecNext ==
    \/ \E m \in 0..MaxChain : NextCalled(m)
    \/ \E m \in 0..MaxChain : Returns(m)

ExecSpec == ExecInit /\ [][ExecNext]_vars

\* ------------------- several providers and the patched history methods

\* The RouterProvider components that mount and unmount.
Providers == {"A", "B", "C"}

\* The deepest nesting of wrappers followed.
MaxDepth == 3

\* patchHistory(method) of provider p: a new function that calls `original`
\* and then dispatches one locationchange event.  A function is written as
\* the providers whose wrappers it runs through, innermost first.
patchHistory(original, p) == Append(original, p)

PatchInit ==
    /\ windowHistory = [pushState |-> Native, replaceState |-> Native]
    /\ providers = [p \in Providers |->
                       [mounted |-> FALSE, originalPush |-> Native,
                        originalReplace |-> Native]]
    /\ listeners = {}
    /\ dispatched = 0
    /\ NavIdle
    /\ MatchIdle
    /\ ChainIdle
    /\ SsrIdle
    /\ NormIdle
    /\ AppIdle
    /\ ExecIdle

\* The history effect of provider p runs: it keeps the functions installed
\* now, installs its wrappers and adds its listeners.
Mount(p) ==
    /\ ~providers[p].mounted
    /\ Len(windowHistory.pushState) < MaxDepth
    /\ providers' = [providers EXCEPT ![p] =
                        [mounted |-> TRUE,
                         originalPush |-> windowHistory.pushState,
                         originalReplace |-> windowHistory.replaceState]]
    /\ windowHistory' = [pushState |-> patchHistory(windowHistory.pushState, p),
                         replaceState |-> patchHistory(windowHistory.replaceState, p)]
    /\ listeners' = listeners \cup {p}
    /\ UNCHANGED <<dispatched,
                   navVars, matchVars, chainVars, ssrVars, normVars, appVars, execVars>>

\* The cleanup of the effect of provider p: it installs the functions it
\* kept and removes its listeners.
Unmount(p) ==
    /\ providers[p].mounted
    /\ windowHistory' = [pushState |-> providers[p].originalPush,
                         replaceState |-> providers[p].originalReplace]
    /\ providers' = [providers EXCEPT ![p].mounted = FALSE]
    /\ listeners' = listeners \ {p}
    /\ UNCHANGED <<dispatched,
                   navVars, matchVars, chainVars, ssrVars, normVars, appVars, execVars>>

\* Some code calls window.history[method](state, title, url): every wrapper
\* the installed function runs through dispatches one locationchange event.
HistoryWrite(method) ==
    /\ dispatched' = Len(windowHistory[method])
    /\ UNCHANGED <<windowHistory, providers, listeners,
                   navVars, matchVars, chainVars, ssrVars, normVars, appVars, execVars>>

PatchNext ==
    \/ \E p \in Providers : Mount(p)
    \/ \E p \in Providers : Unmount(p)
    \/ \E method \in {"pushState", "replaceState"} : HistoryWrite(method)

PatchSpec == PatchInit /\ [][PatchNext]_vars

\* ------------------------------------------------------------- claims

\* The result that matchRoutesAsync gives for a location.
ResultFor(path) == matchRoutesAsync(routes, path, <<>>, <<>>)

\* The route ids of a match chain, root first.
ChainOf(result) == [i \in DOMAIN result.matches |-> result.matches[i].route]

\* Nothing is queued or in flight: the navigator has come to rest.
Quiescent == attempts = {} /\ ~locationQueued

\* C1: when an attempt that a later location change has superseded (its
\* signal is aborted) settles, whatever its result (match, redirect or
\* error), the committed navigation state - matchResult with its params,
\* loaderData, error, isResolving - and the history stay as they were.
C1_StaleAttemptNeverCommits ==
    [][\A a \in attempts :
          (a.aborted /\ attempts' = attempts \ {a})
              => UNCHANGED <<matchResult, loaderData, error, isResolving, history>>]_vars

\* A superseded attempt is still awaiting its steps while the attempt that
\* superseded it is in flight, and its result is not the committed one.
C1_Witness ==
    \E a \in attempts, b \in attempts :
        /\ a.aborted /\ ~b.aborted
        /\ ResultFor(a.path) # matchResult
        /\ ResultFor(a.path).redirect.set

\* C2: a loader whose attempt a later navigation has superseded never
\* writes its data or its failure: when it settles, loaderData and error
\* stay as they were.
C2_StaleLoaderNeverWrites ==
    [][\A l \in loaders :
          (l.superseded /\ loaders' = loaders \ {l})
              => UNCHANGED <<loaderData, error>>]_vars

\* C3: every snapshot of the router context is consistent: the matches
\* (and with them pattern and params) belong to the pathname shown.
C3_SnapshotConsistent ==
    \A i \in DOMAIN matchResult.matches :
        matchResult.matches[i].pathname = normalizedPath

\* C4: same-target redirects are capped or detected: the redirect effect
\* does not keep writing history entries for the location already shown.
C4_SameTargetRedirectsCapped == sameTargetWrites < MaxSameTarget

\* C5: the follow-up navigation of a redirect has replace semantics: when
\* a result with a redirect to p is committed, the current history entry
\* is replaced by p and the stack does not grow.
C5_RedirectReplaces ==
    [][(matchResult' # matchResult /\ matchResult'.redirect.set
            /\ matchResult'.redirect # matchResult.redirect)
          => history' = replaceState(history, matchResult'.redirect.to)]_vars

\* C6: the middleware of the route /dashboard redirects to /login: no
\* committed match chain contains the dashboard route, the navigator never
\* comes to rest at /dashboard, and the chain it rests with at /login is
\* the one of /login.
C6_DashboardNeverCommitted ==
    /\ \A i \in DOMAIN matchResult.matches :
           matchResult.matches[i].route # "dashboard"
    /\ Quiescent => /\ location # <<"dashboard">>
                    /\ location = <<"login">> => ChainOf(matchResult) = <<"login">>

\* The redirect of /dashboard is committed and the navigator has written
\* /login to the history.
C6_Witness ==
    /\ matchResult.pattern = <<S("dashboard")>>
    /\ matchResult.redirect = To(<<"login">>)
    /\ windowPath = <<"login">>

\* The navigator rests at /login after the session asked for /dashboard
\* only.
C6_WitnessFinal ==
    /\ session = {<<"dashboard">>}
    /\ Quiescent
    /\ ChainOf(matchResult) = <<"login">>

\* C7: a redirect produced by a child route matched under its parent makes
\* the navigator redirect: the result committed for /app/old, whose child
\* route `old` has redirectTo /login, carries that redirect.
C7_ChildRedirectFollowed ==
    (matchResult.matches # <<>>
        /\ matchResult.matches[1].pathname = <<"app", "old">>)
      => matchResult.redirect = To(<<"login">>)

\* C8: when the middleware chain of the route matching the location
\* returns block, no lower-priority sibling is matched in its place: the
\* chain committed for /admin does not contain the dynamic route /:page.
C8_BlockStopsResolution ==
    \A i \in DOMAIN matchResult.matches :
        matchResult.matches[i].pathname = <<"admin">>
            => matchResult.matches[i].route # "page"

\* The locations whose matching top-level route is blocked by its
\* middleware chain.
BlockedPaths ==
    {p \in Paths :
        \E k \in DOMAIN routes :
            /\ matchPathPattern(routes[k].paths, p, FALSE).match
            /\ Len(routes[k].middleware) > 0
            /\ executeMiddlewareChain(routes[k].middleware).type = "block"}

\* C9: a Block outcome leaves the last committed state unchanged: when the
\* current attempt for a blocked location settles after a route was
\* committed, match chain, params and loader data are those committed
\* before.
C9_BlockKeepsCommittedState ==
    [][\A a \in attempts :
          (~a.aborted /\ a.path \in BlockedPaths /\ attempts' = attempts \ {a}
              /\ matchResult.component # <<>>)
              => UNCHANGED <<matchResult, loaderData>>]_vars

\* C10: no exception of a middleware or guard escapes the resolver:
\* executeMiddlewareChain never rejects, whatever its middleware does, so
\* the catch around it in matchRoutesAsync never produces its error
\* result, and matchRoutesAsync never rejects, so the `.catch` of the
\* matching effect never records a rejection.
C10_StepErrorsNeverEscape ==
    /\ error # "Rejection"
    /\ matchResult.error # "MiddlewareError"
    /\ \A act \in MiddlewareActs, tail \in MiddlewareActs :
           executeMiddlewareChain(<<Mw(act, <<"login">>), Mw(tail, <<"login">>)>>).type
               \in {"continue", "redirect", "block"}

\* The guard of /gate rejected and the resolver settled with a result that
\* carries the error.
C10_Witness ==
    /\ matchResult.error = "GuardError"
    /\ matchResult.pattern = <<S("gate")>>
    /\ ~isResolving

\* The attempt for the location shown has settled and its result is the
\* committed one.
Settled == attempts = {} /\ ~isResolving

\* The top-level routes, the not-found fallback aside, whose pattern
\* matches the pathname (as a prefix for a route with children).
Candidates(path) ==
    {k \in DOMAIN routes :
        /\ ~is404(routes[k])
        /\ matchPathPattern(routes[k].paths, path, Len(routes[k].children) > 0).match}

\* C11: whenever a middleware or guard of the matched route throws, the
\* committed state records the error and the route's errorElement is
\* rendered: so it is for /vault/key, whose middleware throws, and for
\* /gate, whose guard rejects; both routes configure an errorElement.
C11_ThrownStepRecordsError ==
    (Settled /\ location \in {<<"vault", "key">>, <<"gate">>})
        => /\ matchResult.error # None
           /\ component.view = "errorElement"

\* C15: the not-found fallback is the rendered view exactly when no other
\* candidate matches the pathname, and the committed match chain is then
\* empty.
C15_NotFoundOnlyWithoutCandidate ==
    Settled =>
        /\ (component.view = "page404") <=> (Candidates(location) = {})
        /\ component.view = "page404" => matchResult.matches = <<>>

\* The priority bucket of a route, read from the kinds of its segments:
\* 1 static, 2 dynamic, 3 catch-all.
PriorityBucket(route) ==
    LET kinds == UNION {{route.paths[k][j].kind : j \in DOMAIN route.paths[k]} :
                           k \in DOMAIN route.paths}
    IN  IF "catchAll" \in kinds THEN 3
        ELSE IF kinds \cap {"dynamic", "optional"} # {} THEN 2
        ELSE 1

\* The siblings, the not-found fallback aside, whose pattern matches the
\* pathname (as a prefix for a sibling with children).
MatchingSiblings(siblings, path, parentPath) ==
    {k \in DOMAIN siblings :
        /\ siblings[k].paths # << <<S("404")>> >>
        /\ \E a \in DOMAIN siblings[k].paths :
               extractParams(parentPath \o siblings[k].paths[a], path,
                             siblings[k].children # <<>>).ok}

\* Sibling j comes before sibling k: a lower bucket, or the same bucket and
\* declared earlier.
ComesBefore(siblings, j, k) ==
    \/ PriorityBucket(siblings[j]) < PriorityBucket(siblings[k])
    \/ PriorityBucket(siblings[j]) = PriorityBucket(siblings[k]) /\ j < k

\* The chain of route ids that selecting, at every level, the first
\* matching sibling in that order gives.
RECURSIVE PriorityChain(_, _, _)
PriorityChain(siblings, path, parentPath) ==
    LET matching == MatchingSiblings(siblings, path, parentPath)
        first == CHOOSE k \in matching :
                     \A j \in matching \ {k} : ComesBefore(siblings, k, j)
    IN  IF matching = {} THEN <<>>
        ELSE <<siblings[first].id>> \o
             PriorityChain(siblings[first].children, path,
                           parentPath \o siblings[first].paths[1])

RECURSIVE DeepestWins(_, _)
DeepestWins(matches, i) ==
    IF i > Len(matches) THEN NoParams
    ELSE DeepestWins(matches, i + 1) @@ matches[i].params

\* C13: the params committed for a match chain are the union of the
\* per-level params, the deepest level winning on a key collision, and no
\* key bound by an ancestor is missing; the chain [{id:"1"},
\* {id:"2", tab:"x"}] commits {id:"2", tab:"x"}.
C13_DeepestParamsWin ==
    /\ (resolved # Pending /\ resolved.matches # <<>>) =>
           /\ resolved.params = DeepestWins(resolved.matches, 1)
           /\ \A i \in DOMAIN resolved.matches :
                  DOMAIN resolved.matches[i].params \subseteq DOMAIN resolved.params
           /\ (inputRoutes = ParamTree /\ pathname = <<"a", "1", "2", "x">>)
                 => resolved.params = ("id" :> <<"2">>) @@ ("tab" :> <<"x">>)
    /\ (serverResolved # ServerPending /\ serverResolved.matches # <<>>) =>
           serverResolved.params = DeepestWins(serverResolved.matches, 1)

\* The chain [{id:"1"}, {id:"2", tab:"x"}] is the one resolved.
C13_Witness ==
    /\ Len(resolved.matches) = 2
    /\ resolved.matches[1].params = ("id" :> <<"1">>)
    /\ resolved.matches[2].params = ("id" :> <<"2">>) @@ ("tab" :> <<"x">>)
    /\ resolved.params["id"] = <<"2">>
    /\ serverResolved # ServerPending

\* C14: in the tree [/ A, /users/:id B with child settings C, /404 D],
\* /users/42/settings resolves to a chain of exactly two entries, B then C,
\* each with params {id:"42"}.
C14_ScenarioChain ==
    (inputRoutes = ScenarioTree /\ pathname = <<"users", "42", "settings">>) =>
        /\ resolved # Pending =>
               /\ ChainOf(resolved) = <<"B", "C">>
               /\ \A i \in 1..2 : resolved.matches[i].params = ("id" :> <<"42">>)
        /\ serverResolved # ServerPending =>
               /\ ChainOf(serverResolved) = <<"B", "C">>
               /\ \A i \in 1..2 : serverResolved.matches[i].params = ("id" :> <<"42">>)

\* /users/42/settings is resolved in the tree of the scenario, and B is
\* rendered around C.
C14_Witness ==
    /\ inputRoutes = ScenarioTree /\ pathname = <<"users", "42", "settings">>
    /\ resolved.component = <<"B", "C">>
    /\ serverResolved.statusCode = 200

\* Some pattern of the routes has a catch-all segment that is not its last.
RECURSIVE HasMisplacedCatchAll(_)
HasMisplacedCatchAll(inputList) ==
    \E k \in DOMAIN inputList :
        \/ \E a \in DOMAIN inputList[k].paths :
               \E j \in DOMAIN inputList[k].paths[a] :
                   /\ inputList[k].paths[a][j].kind = "catchAll"
                   /\ j < Len(inputList[k].paths[a])
        \/ HasMisplacedCatchAll(inputList[k].children)

\* C20: a route tree with a pattern whose catch-all segment is not the
\* final one is rejected by createRouter: it is never accepted and then
\* matched.
C20_MisplacedCatchAllRejected ==
    HasMisplacedCatchAll(inputRoutes) =>
        (~router.created /\ resolved = Pending /\ serverResolved = ServerPending)

\* C21: a pattern that ends in an optional dynamic segment matches a
\* pathname without that final segment and binds the name to the empty
\* string: the leaf /users/:id? matches /users with id = "".
C21_OptionalFinalSegment ==
    (inputRoutes = OptionalTree /\ pathname = <<"users">> /\ resolved # Pending) =>
        /\ ChainOf(resolved) = <<"user">>
        /\ resolved.params = ("id" :> <<>>)

\* C22: normalization is idempotent: createRouter(createRouter(routes)) has
\* the same path at every level, alias lists and the root path included,
\* as createRouter(routes).
C22_NormalizationIdempotent ==
    normalizedTwice.created => normalizedTwice.routes = normalizedOnce.routes

\* An array of aliases, the first with two leading slashes, and the root
\* path "/" as the child's path went through createRouter twice, and the
\* first pass changed both.
C22_Witness ==
    /\ normalizedTwice.created
    /\ rawRoutes[1].path = PathArray(<< <<"/", "/", "a">>, <<"/", "a">> >>)
    /\ rawRoutes[1].children[1].path = PathString(<<"/">>)
    /\ normalizedOnce.routes[1].path = PathString(<<"a", "|", "a">>)
    /\ normalizedOnce.routes[1].children[1].path = PathString(<<>>)

\* The strings that are no well-formed location: "//" and "///".
InvalidTargets == { <<"/", "/">>, <<"/", "/", "/">> }

\* C26: navigate(to) with a string that is not a well-formed location
\* reports the error to its caller synchronously and causes no state
\* transition: history is not written, the location is unchanged and no
\* resolution attempt starts.
C26_InvalidNavigateThrows ==
    [][\A to \in InvalidTargets, replace \in BOOLEAN :
           NavigateString(to, replace) =>
               /\ "INVALID_ROUTE" \in thrown'
               /\ UNCHANGED navVars]_vars

\* navigate threw for an invalid string after the application had moved
\* to another location, and the history still has both entries.
C26_Witness ==
    /\ "INVALID_ROUTE" \in thrown
    /\ Len(history.entries) = 2
    /\ matchResult.component # <<>>

\* Every route of a tree, the children included.
RECURSIVE AllRoutes(_)
AllRoutes(list) ==
    UNION {{list[k]} \cup AllRoutes(list[k].children) : k \in DOMAIN list}

\* The route of the provider's tree with the given id.
RouteById(id) == CHOOSE r \in AllRoutes(routes) : r.id = id

\* The levels of a chain, from the root to the route with the given id,
\* whose route configures an errorElement.
ErrorLevels(matches, id) ==
    {j \in DOMAIN matches :
        /\ RouteById(matches[j].route).errorElement
        /\ \E i \in DOMAIN matches : matches[i].route = id /\ j <= i}

\* The errorElement of the route with the given id if it has one, else
\* that of its nearest ancestor in the chain.
NearestErrorElement(matches, id) ==
    matches[CHOOSE j \in ErrorLevels(matches, id) :
                \A k \in ErrorLevels(matches, id) : k <= j].route

\* C27: when the loader of a matched route fails, the error is shown
\* through that route's own errorElement if it has one and otherwise
\* through the errorElement of its nearest ancestor in the match chain,
\* and the match chain stays committed.
C27_LoaderErrorOwnErrorElement ==
    [][\A l \in loaders :
           (/\ LoaderSettles(l, "error")
            /\ ~l.aborted /\ ~l.superseded
            /\ matchResult.loader.has /\ matchResult.loader.route = l.route
            /\ ErrorLevels(matchResult.matches, l.route) # {})
           => /\ matchResult' = matchResult
              /\ component' =
                     [view |-> "errorElement",
                      of |-> <<NearestErrorElement(matchResult.matches, l.route)>>]]_vars

\* C28: when two routes of the committed match chain both have loaders,
\* both loaders are run: once a result is committed, a loader is in flight
\* for every route of its chain that has one.
C28_EveryLoaderOfChainRuns ==
    [][matchResult' # matchResult =>
           \A i \in DOMAIN matchResult'.matches :
               RouteById(matchResult'.matches[i].route).loader =>
                   \E l \in loaders' :
                       l.route = matchResult'.matches[i].route /\ ~l.aborted]_vars

\* C30: when the blocker function returns true for an attempted in-app
\* navigation, the blocker's state becomes "blocked" with location set to
\* the attempted location, and the navigation does not take effect.
C30_BlockerBlocksNavigation ==
    [][\A to \in RawTargets, replace \in BOOLEAN :
           (blockerFn /\ validateUrl(targetPath(to)) /\ NavigateString(to, replace))
           => /\ blockerState' = "blocked"
              /\ blockedLocation' = To(pathnameOf(targetPath(to)))
              /\ history' = history]_vars

\* What the client does with a result: it redirects, renders the not-found
\* view (no component to render), or renders the matched component.
ClientStatus(result) ==
    IF result.redirect.set THEN "redirect"
    ELSE IF result.component = <<>> THEN "not-found"
    ELSE "ok"

\* The status-equivalent of a statusCode.
ServerStatus(statusCode) ==
    CASE statusCode = 302 -> "redirect"
      [] statusCode = 404 -> "not-found"
      [] OTHER -> "ok"

\* C23: for every route tree and pathname, matchServerRoutes and the match
\* that StaticRouter exposes give the same ordered match chain and the same
\* merged params as the client resolves and commits for that location.
C23_ServerChainAsClient ==
    /\ (resolved # Pending /\ serverResolved # ServerPending) =>
           /\ ChainOf(serverResolved) = ChainOf(resolved)
           /\ serverResolved.params = resolved.params
    /\ (resolved # Pending /\ staticResult.rendered) =>
           /\ ChainOf(staticResult) = ChainOf(resolved)
           /\ staticResult.params = resolved.params

\* C24: matchServerRoutes reports redirect exactly when the client would
\* redirect for the same tree and pathname (redirects of guards and
\* middleware included), not-found exactly when the client would render
\* the not-found view, and ok otherwise.
C24_ServerStatusAsClient ==
    (resolved # Pending /\ serverResolved # ServerPending) =>
        ServerStatus(serverResolved.statusCode) = ClientStatus(resolved)

\* C25: after StaticRouter rendered a location whose matched route has
\* redirectTo (/old, /app/legacy) or whose guard returns a path (/account),
\* the caller's context object has action "REDIRECT", statusCode 302 and
\* the redirect target as its url.
C25_StaticRedirectContext ==
    (staticResult.rendered /\ inputRoutes = GuardedTree
        /\ pathname \in {<<"old">>, <<"account">>, <<"app", "legacy">>}) =>
        staticResult.context =
            [action |-> "REDIRECT", statusCode |-> 302, url |-> To(<<"login">>)]

\* C29: the value a parent passes as <Outlet context={v} /> is what
\* useOutletContext() returns in the child rendered in that outlet.
C29_OutletContextReachesChild ==
    outletRead.read => outletRead.value = outletProp

\* The calls of the record that are entries of the given kind.
Calls(kind) == {n \in DOMAIN invoked : invoked[n].call = kind}

\* The chain and the guard are through.
RouteDone == pc = "done"

C18_ContinueHandsOver ==
    (pc \in {"guard", "done"} /\ settling.type = "continue") =>
        \A n \in Calls("return") :
            chain[invoked[n].mw].act = "continue"
                => \A k \in (invoked[n].mw + 1)..Len(chain) :
                       \E m \in Calls("invoke") : invoked[m].mw = k

InputRoute(id) == CHOOSE r \in AllRoutes(inputRoutes) : r.id = id

\* The last match of a chain is a route with children whose own pattern,
\* under the base path of the match, does not match the whole pathname.
PartialTerminal(matches) ==
    /\ matches # <<>>
    /\ LET last == matches[Len(matches)]
           route == InputRoute(last.route)
       IN  /\ route.children # <<>>
           /\ ~matchPathPattern(
                  [k \in DOMAIN route.paths |-> last.pathnameBase \o route.paths[k]],
                  pathname, FALSE).match

\* C31: a route with children none of which matches is the terminal match
\* only if its own pattern matches the whole pathname exactly, in the
\* client's and in the server's matcher; /users/42/bogus in the tree of the
\* scenario does not resolve to the route /users/:id.
C31_ParentTerminalOnlyIfExact ==
    /\ resolved # Pending =>
           /\ ~PartialTerminal(resolved.matches)
           /\ (inputRoutes = ScenarioTree /\ pathname = <<"users", "42", "bogus">>)
                 => resolved.component # <<"B">>
    /\ serverResolved # ServerPending => ~PartialTerminal(serverResolved.matches)

\* C32: the children of a route matched through its alias k are matched
\* relative to that alias: with the aliases [/a, /b] and the child settings,
\* /a/settings and /b/settings both resolve to the chain parent, settings.
C32_ChildrenRelativeToMatchedAlias ==
    (inputRoutes = AliasTree
        /\ pathname \in { <<"a", "settings">>, <<"b", "settings">> }) =>
        /\ resolved # Pending => ChainOf(resolved) = <<"parent", "settings">>
        /\ serverResolved # ServerPending =>
               ChainOf(serverResolved) = <<"parent", "settings">>

\* ------------------------------------- attempts, signals and loader data

\* C33: every successful navigate(to) writes history once and starts a
\* fresh resolution attempt for `to`, also when `to` is the pathname of the
\* current location.  (While the history holds a single entry every write
\* was a navigate with replace, so the location a render takes up was set
\* by navigate.)
C33_NavigateStartsFreshAttempt ==
    /\ [][\A to \in Paths, replace \in BOOLEAN :
              Navigate(to, replace) =>
                  /\ history' \in {pushState(history, to), replaceState(history, to)}
                  /\ locationQueued']_vars
    /\ [][(Render /\ Len(history.entries) = 1) =>
              [path |-> windowPath, aborted |-> FALSE] \in attempts']_vars

\* C34: every guard, middleware step and loader holds the signal of the
\* attempt it belongs to, and once a new location has superseded that
\* attempt the signal is aborted.
C34_SupersededSignalAborted ==
    /\ \A a \in attempts : a.path # location => a.aborted
    /\ \A l \in loaders : l.superseded => l.aborted

\* C39: while the committed match has no loader the loaderData of the
\* context is null, and the loaderData shown with a committed match is never
\* the data of another route's loader.
C39_LoaderDataOfCommittedMatch ==
    /\ ~matchResult.loader.has => loaderData = None
    /\ (matchResult.loader.has /\ loaderData # None)
          => loaderData = matchResult.loader.route

\* ------------------------------------ next() called more than once

\* C40: in one run of executeMiddlewareChain every middleware of the list
\* is invoked at most once, also when middlewares call next() more than
\* once or after they have returned.
C40_EachMiddlewareInvokedOnce ==
    \A k \in DOMAIN invocationCount : invocationCount[k] <= 1

\* A middleware has called next() twice while it ran, another has called
\* it after it returned, and every middleware of the list was invoked.
C40_Witness ==
    /\ Len(middlewareList) = 3
    /\ \E m \in 1..3 : middlewareList[m].before = 2 /\ activations[m].before = 0
                          /\ activations[m].status = "returned"
    /\ \E m \in 1..3 : middlewareList[m].after = 1 /\ activations[m].after = 0
                          /\ activations[m].status = "returned"
    /\ \A k \in 1..3 : invocationCount[k] = 1

\* ----------------------------------------- providers that have unmounted

\* No provider is mounted.
AllUnmounted == \A p \in DOMAIN providers : ~providers[p].mounted

\* C38: once every mounted RouterProvider has unmounted, in whatever order
\* they mounted and unmounted, window.history.pushState and replaceState
\* are the functions installed before the first mount, and a history write
\* dispatches no locationchange event.
C38_HistoryRestoredAfterUnmount ==
    /\ [](AllUnmounted =>
             windowHistory = [pushState |-> Native, replaceState |-> Native])
    /\ [][(AllUnmounted /\ \E method \in {"pushState", "replaceState"} :
                               HistoryWrite(method))
             => dispatched' = 0]_vars

\* ------------------------------------------- the latest location wins

\* C36: if the location stops changing (from some point on the location
\* shown is the one of the window) and the steps started for the latest
\* location settle (again and again no attempt with a live signal is
\* pending), then from some point on isResolving is false and the committed
\* match result is the one computed for that location, whether or not the
\* steps of superseded attempts ever settle.
C36_LatestLocationCommits ==
    (<>[](windowPath = location) /\ []<>(\A a \in attempts : a.aborted))
        => <>[](~isResolving /\ matchResult = ResultFor(location))

\* The result of the location shown is committed and resolving is over
\* while the promise of a superseded attempt for another location is still
\* pending.
C36_Witness ==
    /\ ~isResolving
    /\ ~locationQueued
    /\ matchResult = ResultFor(location)
    /\ matchResult.component # <<>>
    /\ \E a \in attempts : a.aborted /\ a.path # location

\* --------------------------------- ancestors, their chains and guards

\* The ids of the ancestors of the route with the given id in a tree, the
\* route itself included.
RECURSIVE Lineage(_, _)
Lineage(list, id) ==
    UNION {IF list[k].id = id THEN {id}
           ELSE IF Lineage(list[k].children, id) # {}
           THEN {list[k].id} \cup Lineage(list[k].children, id)
           ELSE {} : k \in DOMAIN list}

\* Step n of the record is the given step of the route and had the result.
StepIs(n, id, step, results) ==
    /\ invoked[n].route = id
    /\ invoked[n].step = step
    /\ invoked[n].result \in results

\* C35: within one attempt the middleware and the guard of a route are
\* invoked only after the middleware chain and the guard of every ancestor
\* in the chain have completed with continue, and the routes of the chain
\* are processed in root-to-leaf order.
C35_AncestorsCompleteFirst ==
    resolved # Pending =>
        \A n \in DOMAIN invoked :
            /\ \A j \in DOMAIN invoked[n].chain :
                   LET ancestor == InputRoute(invoked[n].chain[j])
                   IN  /\ Len(ancestor.middleware) > 0 =>
                              \E m \in 1..(n - 1) :
                                  StepIs(m, ancestor.id, "middleware", {"continue"})
                       /\ ancestor.guard.act # None =>
                              \E m \in 1..(n - 1) :
                                  StepIs(m, ancestor.id, "guard", {"pass"})
                       /\ \A m \in DOMAIN invoked :
                              (invoked[m].route = ancestor.id /\ invoked[m].chain
                                   = SubSeq(invoked[n].chain, 1, j - 1)) => m < n
            /\ \A m \in DOMAIN invoked :
                   (invoked[m].route = invoked[n].route
                        /\ invoked[m].chain = invoked[n].chain
                        /\ invoked[m].step = "middleware"
                        /\ invoked[n].step = "guard") => m < n

\* /org/staff/desk is resolved: the guard of desk was invoked under the
\* chain org, staff, after the chains and guards of both.
C35_Witness ==
    /\ inputRoutes = NestedGuardTree
    /\ resolved # Pending
    /\ resolved.component = <<"org", "staff", "desk">>
    /\ Len(invoked) = 5
    /\ invoked[5].route = "desk" /\ invoked[5].chain = <<"org", "staff">>

\* C37: a route is in a committed match chain only if, in that attempt, its
\* own middleware chain returned continue and its guard returned neither
\* false nor a redirect, and so for every ancestor of it in the route tree.
C37_ChainRoutesWereAdmitted ==
    (resolved # Pending /\ resolved.component # <<>>) =>
        \A i \in DOMAIN resolved.matches :
            \A id \in Lineage(inputRoutes, resolved.matches[i].route) :
                /\ Len(InputRoute(id).middleware) > 0 =>
                       \E n \in DOMAIN invoked :
                           StepIs(n, id, "middleware", {"continue"})
                /\ ~\E n \in DOMAIN invoked :
                        StepIs(n, id, "guard", {"skip", "redirect"})

=============================================================================
